---- MODULE Spec2Model ----
(***************************************************************************)
(* Model of the homes.com extraction pipeline of play-mcp                  *)
(* (pkg/scraper/homes.go): the identifier synthesizer, the field parsers,  *)
(* the text-proximity page extractor and the pagination controller.        *)
(*                                                                         *)
(* Go strings are sequences of one-character strings.  A regular           *)
(* expression capture is the captured sequence; the empty sequence stands  *)
(* for "pattern did not match" (every capture group used here needs at     *)
(* least one character, so a real capture is never empty).                 *)
(***************************************************************************)
EXTENDS Integers, Sequences, FiniteSets, Bags, TLC

(***************************************************************************)
(* Bounds of the model.                                                    *)
(***************************************************************************)
\* longest free prefix of an address handed to generatePropertyID
MaxIdHead == 1
\* number of generatePropertyID calls recorded in one behaviour
MaxIdCalls == 2
\* number of leading listings of a result page that are chosen freely
MaxLead == 1
\* size of a short (last) result page
ShortPage == 5

(***************************************************************************)
(* Program constants.                                                      *)
(***************************************************************************)
\* for page := 1; page <= 3; page++
MaxPages == 3
\* if len(pageProperties) < 20 { break }
PageFull == 20
\* if len(cleaned) > 25 { cleaned = cleaned[:25] }
PropIDMaxLen == 25

(***************************************************************************)
(* Characters and strings.                                                 *)
(***************************************************************************)
UpperChars ==
  <<"A","B","C","D","E","F","G","H","I","J","K","L","M",
    "N","O","P","Q","R","S","T","U","V","W","X","Y","Z">>

LowerChars ==
  <<"a","b","c","d","e","f","g","h","i","j","k","l","m",
    "n","o","p","q","r","s","t","u","v","w","x","y","z">>

DigitChars == <<"0","1","2","3","4","5","6","7","8","9">>

Range(s) == {s[i] : i \in DOMAIN s}

LowerSet == Range(LowerChars)

UpperSet == Range(UpperChars)

DigitSet == Range(DigitChars)

\* unicode.ToLower on one character; "E'" is the two-byte letter E-acute,
\* which lower-cases to "e'" and is no ASCII letter.
ToLowerChar(c) ==
  IF c \in UpperSet
    THEN LowerChars[CHOOSE i \in 1..26 : UpperChars[i] = c]
    ELSE IF c = "E'" THEN "e'" ELSE c

\* strings.ToLower
ToLower(s) == [i \in DOMAIN s |-> ToLowerChar(s[i])]

\* regexp `[^a-z0-9]+` ReplaceAllString(s, ""): drop every character that is
\* not a lower-case ASCII letter or a digit
StripNonAlnum(s) == SelectSeq(s, LAMBDA c : c \in LowerSet \cup DigitSet)

\* s[:n] for n <= len(s)
Prefix(s, n) == SubSeq(s, 1, n)

\* all sequences over S of length at most n
RECURSIVE SeqsUpTo(_, _)
SeqsUpTo(S, n) ==
  IF n <= 0 THEN {<<>>}
  ELSE LET shorter == SeqsUpTo(S, n - 1)
       IN  shorter \cup {Append(t, c) : t \in shorter, c \in S}

RECURSIVE Repeat(_, _)
Repeat(s, n) == IF n <= 0 THEN <<>> ELSE s \o Repeat(s, n - 1)

PropPrefix == <<"p","r","o","p","_">>

Unknown == <<"u","n","k","n","o","w","n">>

\* mutant: the input is not lower-cased before the non-alphanumerics are dropped
generatePropertyID_CaseSensitive(address, city) ==
  LET cleaned == StripNonAlnum(address \o city)
      cut     == IF Len(cleaned) > PropIDMaxLen
                   THEN Prefix(cleaned, PropIDMaxLen) ELSE cleaned
  IN  PropPrefix \o (IF cut = <<>> THEN Unknown ELSE cut)

\* mutant: no fallback token for an empty cleaned string
generatePropertyID_NoFallback(address, city) ==
  LET cleaned == StripNonAlnum(ToLower(address \o city))
  IN  PropPrefix \o (IF Len(cleaned) > PropIDMaxLen
                       THEN Prefix(cleaned, PropIDMaxLen) ELSE cleaned)

\* mutant: the cleaned string is cut one character too late
generatePropertyID_CutLate(address, city) ==
  LET cleaned == StripNonAlnum(ToLower(address \o city))
      cut     == IF Len(cleaned) > PropIDMaxLen + 1
                   THEN Prefix(cleaned, PropIDMaxLen + 1) ELSE cleaned
  IN  PropPrefix \o (IF cut = <<>> THEN Unknown ELSE cut)

generatePropertyID(address, city) ==
  LET combined == ToLower(address \o city)
      cleaned  == StripNonAlnum(combined)
      cut      == IF Len(cleaned) > PropIDMaxLen
                    THEN Prefix(cleaned, PropIDMaxLen) ELSE cleaned
      final    == IF cut = <<>> THEN Unknown ELSE cut
  IN  PropPrefix \o final

(***************************************************************************)
(* Field parsers.                                                          *)
(***************************************************************************)
SetMin(S) == CHOOSE x \in S : \A y \in S : x <= y

SetMax(S) == CHOOSE x \in S : \A y \in S : x >= y

\* end of the longest run of characters of class C that starts at index b
RunEnd(s, b, C) ==
  SetMax({k \in b..Len(s) : \A i \in b..k : s[i] \in C})

\* regexp `[C]+` FindString: the leftmost, longest run of characters of C,
\* "" when there is none
FirstRun(s, C) ==
  LET starts == {i \in DOMAIN s : s[i] \in C}
  IN  IF starts = {} THEN <<>>
      ELSE SubSeq(s, SetMin(starts), RunEnd(s, SetMin(starts), C))

DigitVal(c) == (CHOOSE i \in 1..10 : DigitChars[i] = c) - 1

RECURSIVE DecValue(_)
DecValue(d) ==
  IF d = <<>> THEN 0
  ELSE 10 * DecValue(SubSeq(d, 1, Len(d) - 1)) + DigitVal(d[Len(d)])

\* the largest value of Go's int.  Its width is that of the platform; the
\* model takes the 32-bit width, where the range error of strconv.Atoi is
\* within reach of short digit runs
IntMax == 2147483647

\* the value ParseInt accumulates digit by digit: once the next digit would
\* pass IntMax the result is the range error's value, IntMax
RECURSIVE Saturated(_)
Saturated(d) ==
  IF d = <<>> THEN 0
  ELSE LET acc == Saturated(SubSeq(d, 1, Len(d) - 1))
           v   == DigitVal(d[Len(d)])
       IN  IF acc > (IntMax - v) \div 10 THEN IntMax ELSE 10 * acc + v

\* a variant that reports a failed conversion as -1
Atoi_ErrMinusOne(d) == IF d = <<>> THEN 0 - 1 ELSE Saturated(d)

\* strconv.Atoi on a string of digits, the error dropped: 0 for "" (syntax
\* error), IntMax for a value out of range (range error), the decimal value
\* otherwise
Atoi(d) == IF d = <<>> THEN 0 ELSE Saturated(d)

\* strings.ReplaceAll(s, ",", "")
DropCommas(s) == SelectSeq(s, LAMBDA c : c # ",")

parsePrice(s) ==
  LET match == FirstRun(s, DigitSet \cup {","})
  IN  IF match = <<>> THEN 0 ELSE Atoi(DropCommas(match))

parseInt(s) ==
  LET match == FirstRun(s, DigitSet)
  IN  IF match = <<>> THEN 0 ELSE Atoi(match)

\* a float64 holding a short decimal (exact below 2^53): sign, significant
\* digits without leading zeros, and how many of them are decimals, trailing
\* zeros dropped; zero has no digits
ZeroFloat == [neg |-> FALSE, digits |-> <<>>, e |-> 0]

RECURSIVE DropTrailingZeros(_)
DropTrailingZeros(d) ==
  IF d # <<>> /\ d[Len(d)] = "0"
    THEN DropTrailingZeros(SubSeq(d, 1, Len(d) - 1)) ELSE d

RECURSIVE DropLeadingZeros(_)
DropLeadingZeros(d) ==
  IF d # <<>> /\ d[1] = "0" THEN DropLeadingZeros(Tail(d)) ELSE d

\* regexp `[0-9]+\.?[0-9]*` FindString, then strconv.ParseFloat
parseFloat(s) ==
  LET starts == {i \in DOMAIN s : s[i] \in DigitSet}
  IN  IF starts = {} THEN ZeroFloat
      ELSE LET b     == SetMin(starts)
               e     == RunEnd(s, b, DigitSet)
               whole == SubSeq(s, b, e)
               frac  == IF e + 1 <= Len(s) /\ s[e + 1] = "."
                          THEN IF e + 2 <= Len(s) /\ s[e + 2] \in DigitSet
                                 THEN SubSeq(s, e + 2, RunEnd(s, e + 2, DigitSet))
                                 ELSE <<>>
                          ELSE <<>>
               kept  == DropTrailingZeros(frac)
           IN  [neg |-> FALSE, digits |-> DropLeadingZeros(whole \o kept),
                e |-> Len(kept)]

\* regexp `-?[0-9]+\.?[0-9]*` FindString, then strconv.ParseFloat: the match
\* starts at the leftmost digit, or at the "-" just before it (-0 equals 0)
parsePercent(s) ==
  LET starts == {i \in DOMAIN s : s[i] \in DigitSet}
  IN  IF starts = {} THEN ZeroFloat
      ELSE LET b   == SetMin(starts)
               abs == parseFloat(SubSeq(s, b, Len(s)))
           IN  [abs EXCEPT !.neg = b > 1 /\ s[b - 1] = "-" /\ abs.digits # <<>>]

(***************************************************************************)
(* Listing records and the text-proximity page extractor (scrapePage).     *)
(***************************************************************************)
\* Property{}: the fields the extractors of this model write, at their zero
\* values
ZeroProperty ==
  [ ID |-> <<>>, Address |-> <<>>, City |-> <<>>, State |-> <<>>,
    ZipCode |-> <<>>, Price |-> 0, Bedrooms |-> 0, Bathrooms |-> ZeroFloat,
    SquareFeet |-> 0, LotSize |-> ZeroFloat, PricePerSqFt |-> 0,
    YearBuilt |-> 0, PropertyType |-> "", Status |-> "", SoldDate |-> "",
    DaysOnMarket |-> 0, Description |-> <<>>, Features |-> <<>>,
    Agent |-> <<>>, Brokerage |-> <<>>, PropertyCondition |-> "",
    SchoolDistrict |-> "", ElementarySchool |-> "", MiddleSchool |-> "",
    HighSchool |-> "", Neighborhood |-> "", PropertyTax |-> <<>>,
    HOAFees |-> <<>>, ParkingSpaces |-> 0, Garage |-> <<>>,
    Heating |-> <<>>, Cooling |-> <<>>, Flooring |-> <<>>,
    Appliances |-> <<>> ]

\* strings.Split(s, sep) for a one-character separator
RECURSIVE Split(_, _)
Split(s, sep) ==
  LET hits == {i \in DOMAIN s : s[i] = sep}
  IN  IF hits = {} THEN <<s>>
      ELSE LET i == SetMin(hits)
           IN  <<SubSeq(s, 1, i - 1)>> \o Split(SubSeq(s, i + 1, Len(s)), sep)

\* strings.TrimSpace
TrimSpace(s) ==
  LET solid == {i \in DOMAIN s : s[i] # " "}
  IN  IF solid = {} THEN <<>> ELSE SubSeq(s, SetMin(solid), SetMax(solid))

\* strings.Contains(s, sub)
Contains(s, sub) ==
  \E b \in 1..(Len(s) - Len(sub) + 1) : SubSeq(s, b, b + Len(sub) - 1) = sub

\* unicode.ToUpper on one character
ToUpperChar(c) ==
  IF c \in LowerSet
    THEN UpperChars[CHOOSE i \in 1..26 : LowerChars[i] = c]
    ELSE IF c = "e'" THEN "E'" ELSE c

\* strings.ToUpper
ToUpper(s) == [i \in DOMAIN s |-> ToUpperChar(s[i])]

Letters == LowerSet \cup UpperSet \cup {"e'", "E'"}

\* strings.Title: the first letter of every word is upper-cased; a word starts
\* at the start of the string and after any character that is no letter, no
\* digit and no underscore
Title(s) ==
  [i \in DOMAIN s |->
     IF i = 1 \/ s[i - 1] \notin (Letters \cup DigitSet \cup {"_"})
       THEN ToUpperChar(s[i]) ELSE s[i]]

\* len(s): the number of bytes, two for the non-ASCII letters
RECURSIVE ByteLen(_)
ByteLen(s) ==
  IF s = <<>> THEN 0
  ELSE (IF Head(s) \in {"e'", "E'"} THEN 2 ELSE 1) + ByteLen(Tail(s))

\* strings.Join(parts, sep)
RECURSIVE Join(_, _)
Join(parts, sep) ==
  IF parts = <<>> THEN <<>>
  ELSE IF Len(parts) = 1 THEN parts[1]
  ELSE parts[1] \o sep \o Join(Tail(parts), sep)

\* strings.Fields on blanks
Fields(s) == SelectSeq(Split(s, " "), LAMBDA f : f # <<>>)

Honolulu == <<"H","o","n","o","l","u","l","u">>

HI == <<"H","I">>

Zip96822 == <<"9","6","8","2","2">>

\* A parsed result page is the sequence of its address-anchor matches
\* (addressRegex.FindAllString), each with the captures the field patterns
\* find in the window of page text around that match's own offset:
\* [anchor |-> text, window |-> [price, sqft, bed, bath, sold, days, year]].
\*
\* strings.Index(pageText, address): the code looks the matched text up again
\* and gets its FIRST occurrence in the page, which lies in the first match
\* whose text contains it.
FirstOccurrence(doc, i) ==
  SetMin({j \in 1..i : Contains(doc[j].anchor, doc[i].anchor)})

\* chunk := pageText[start:end] around addressIndex
chunkOf(doc, i) == doc[FirstOccurrence(doc, i)].window

\* mutant: the area is not tested before the division is decided
pricePerSqFt_NoAreaGuard(price, squareFeet) ==
  IF price > 0 THEN (IF squareFeet > 0 THEN price \div squareFeet ELSE price)
  ELSE 0

\* lines 446-449: price per square foot
pricePerSqFt(price, squareFeet) ==
  IF price > 0 /\ squareFeet > 0 THEN price \div squareFeet ELSE 0

\* the body of the loop over the anchors (lines 381-457): one listing from
\* its anchor text and its chunk
extractListing(anchor, chunk) ==
  LET parts  == Split(anchor, ",")
      p0     == [ZeroProperty EXCEPT !.Status = "sold"]
      p1     == IF Len(parts) >= 3
                  THEN [p0 EXCEPT !.Address = TrimSpace(parts[1]),
                                  !.City = Honolulu, !.State = HI,
                                  !.ZipCode = Zip96822]
                  ELSE p0
      price  == IF chunk.price # <<>> THEN parsePrice(chunk.price) ELSE 0
      sqft   == IF chunk.sqft # <<>> THEN parseInt(chunk.sqft) ELSE 0
      p2     == [p1 EXCEPT
                   !.Price = price,
                   !.SquareFeet = sqft,
                   !.Bedrooms = IF chunk.bed # <<>> THEN parseInt(chunk.bed) ELSE 0,
                   !.Bathrooms = IF chunk.bath # <<>> THEN parseFloat(chunk.bath)
                                 ELSE ZeroFloat,
                   !.SoldDate = chunk.sold,
                   !.DaysOnMarket = IF chunk.days # <<>> THEN parseInt(chunk.days)
                                    ELSE 0,
                   !.YearBuilt = IF chunk.year # <<>> THEN parseInt(chunk.year)
                                 ELSE 0,
                   !.PricePerSqFt = pricePerSqFt(price, sqft),
                   !.PropertyType = "house"]
  IN  IF p2.Address # <<>>
        THEN [p2 EXCEPT !.ID = generatePropertyID(p2.Address, p2.City)]
        ELSE p2

\* mutant: a listing is admitted on its address alone
admitted_AddressOnly(property) == property.Address # <<>>

\* lines 459-462: "only add if we have basic info"
admitted(property) == property.Address # <<>> /\ property.Price > 0

NoErr == [kind |-> "nil", code |-> 0, page |-> 0]

\* scrapePage(url): resp is what the site answers to the GET of url:
\* [kind |-> "request" | "transport" | "status" | "parse" | "ok", code, doc]
scrapePage(resp) ==
  IF resp.kind # "ok"
    THEN [err |-> [kind |-> resp.kind, code |-> resp.code, page |-> 0],
          properties |-> <<>>]
    ELSE LET doc == resp.doc
             all == [i \in 1..Len(doc) |-> extractListing(doc[i].anchor, chunkOf(doc, i))]
         IN  [err |-> NoErr, properties |-> SelectSeq(all, admitted)]

(***************************************************************************)
(* The chunk of page text scanned for one anchor (scrapePage, lines        *)
(* 394-409).  Here a page is [len, matches]: the length of its text and    *)
(* the matches of the address pattern in text order, each with the offset  *)
(* it starts at and the text it matched; the text between the matches      *)
(* holds no copy of a matched text.                                        *)
(***************************************************************************)
ChunkBefore == 500

ChunkAfter == 1000

\* line 395: strings.Index(pageText, address), the offset of the first
\* occurrence of the matched text in the page
addressIndex(pg, i) ==
  LET address == pg.matches[i].anchor
      occurrences ==
        UNION { { pg.matches[j].off + (k - 1) :
                    k \in { k \in 1..(Len(pg.matches[j].anchor) - Len(address) + 1) :
                              SubSeq(pg.matches[j].anchor, k, k + Len(address) - 1)
                                = address } } :
                j \in DOMAIN pg.matches }
  IN  SetMin(occurrences)

\* lines 400-409: start and end of chunk := pageText[start:end]
chunkBounds(pg, i) ==
  LET index == addressIndex(pg, i)
      start == IF index - ChunkBefore < 0 THEN 0 ELSE index - ChunkBefore
      end   == IF index + ChunkAfter > pg.len THEN pg.len ELSE index + ChunkAfter
  IN  [start |-> start, end |-> end]

(***************************************************************************)
(* The statistics extractors (ScrapeNeighborhoodStats, ScrapeMarketStats). *)
(***************************************************************************)
\* the labels of the table rows, lines 202-215
LblMedianSale == <<"M","e","d","i","a","n"," ","S","a","l","e"," ","P","r","i","c","e">>

LblMedianSingleFamily == <<
  "M","e","d","i","a","n"," ","S","i","n","g","l","e"," ","F","a","m","i",
  "l","y"," ","S","a","l","e"," ","P","r","i","c","e" >>

LblMedianTownhouse == <<
  "M","e","d","i","a","n"," ","T","o","w","n","h","o","u","s","e"," ","S",
  "a","l","e"," ","P","r","i","c","e" >>

LblAvgPerSqFt == <<
  "A","v","e","r","a","g","e"," ","P","r","i","c","e"," ","P","e","r"," ",
  "S","q"," ","F","t" >>

LblHomesForSale == <<
  "N","u","m","b","e","r"," ","o","f"," ","H","o","m","e","s"," ","f","o",
  "r"," ","S","a","l","e" >>

LblSales12 == <<
  "L","a","s","t"," ","1","2"," ","m","o","n","t","h","s"," ","H","o","m",
  "e"," ","S","a","l","e","s" >>

LblYoY == <<"Y","o","Y"," ","C","h","a","n","g","e">>

\* &MarketStats{Area: ..., Timestamp: ...}, lines 191-194
ZeroStats(area) ==
  [ Area |-> area, MedianSalePrice |-> 0, MedianSingleFamilyPrice |-> 0,
    MedianTownhousePrice |-> 0, AveragePricePerSqFt |-> 0, HomesForSale |-> 0,
    SalesLast12Months |-> 0, AverageDaysOnMarket |-> 0,
    MonthsOfSupply |-> ZeroFloat, YearOverYearChange |-> ZeroFloat,
    Timestamp |-> "now" ]

\* the switch of lines 201-216 on one table row: the first case whose label
\* text is contained in the row's label
statsRow(stats, row) ==
  LET label == TrimSpace(row.label)
      value == TrimSpace(row.value)
  IN  IF Contains(label, LblMedianSale)
        THEN [stats EXCEPT !.MedianSalePrice = parsePrice(value)]
      ELSE IF Contains(label, LblMedianSingleFamily)
        THEN [stats EXCEPT !.MedianSingleFamilyPrice = parsePrice(value)]
      ELSE IF Contains(label, LblMedianTownhouse)
        THEN [stats EXCEPT !.MedianTownhousePrice = parsePrice(value)]
      ELSE IF Contains(label, LblAvgPerSqFt)
        THEN [stats EXCEPT !.AveragePricePerSqFt = parsePrice(value)]
      ELSE IF Contains(label, LblHomesForSale)
        THEN [stats EXCEPT !.HomesForSale = parseInt(value)]
      ELSE IF Contains(label, LblSales12)
        THEN [stats EXCEPT !.SalesLast12Months = parseInt(value)]
      ELSE IF Contains(label, LblYoY)
        THEN [stats EXCEPT !.YearOverYearChange = parsePercent(value)]
      ELSE stats

\* lines 197-218: every row of the housing-trends tables, in document order
RECURSIVE structuredStats(_, _)
structuredStats(stats, rows) ==
  IF rows = <<>> THEN stats
  ELSE structuredStats(statsRow(stats, Head(rows)), Tail(rows))

\* -x for a float
negFloat(v) == [v EXCEPT !.neg = ~@ /\ v.digits # <<>>]

\* mutant: the text patterns are consulted whatever the table gave
fallbackWanted_Always(stats) == TRUE

\* line 221: "if we didn't get data from table"
fallbackWanted(stats) == stats.MedianSalePrice = 0

\* lines 222-241 (stats) and 304-323 (market): text holds the capture of each
\* pattern in the flattened page text, "" when the pattern does not match
textStats(fn, stats, text) ==
  LET homes == IF fn = "ScrapeNeighborhoodStats" THEN text.homesForSaleIn
               ELSE text.homesInManoa
  IN  [stats EXCEPT
         !.MedianSalePrice     = IF text.median # <<>> THEN parsePrice(text.median) ELSE @,
         !.AveragePricePerSqFt = IF text.ppsf # <<>> THEN parsePrice(text.ppsf) ELSE @,
         !.AverageDaysOnMarket = IF text.dom # <<>> THEN parseInt(text.dom) ELSE @,
         !.YearOverYearChange  = IF text.down # <<>>
                                   THEN negFloat(parsePercent(text.down \o <<"%">>))
                                   ELSE @,
         !.HomesForSale        = IF homes # <<>> THEN parseInt(homes) ELSE @,
         !.SalesLast12Months   = IF text.sales # <<>> THEN parseInt(text.sales) ELSE @]

NoStats == ZeroStats("")

\* the body of both extractors from the request on (lines 173-244, 253-326):
\* resp is what the site answers, [kind, code, doc] with doc = [rows, text];
\* the status code of the response is not looked at.  The result also tells
\* what the table rows gave and whether the text patterns were consulted.
scrapeStats(fn, area, resp) ==
  IF resp.kind \in {"request", "transport", "parse"}
    THEN [nil |-> TRUE, stats |-> NoStats,
          err |-> [kind |-> resp.kind, code |-> 0, page |-> 0],
          table |-> NoStats, fallback |-> FALSE]
    ELSE LET table == structuredStats(ZeroStats(area), resp.doc.rows)
             fb    == fallbackWanted(table)
         IN  [nil |-> FALSE,
              stats |-> IF fb THEN textStats(fn, table, resp.doc.text) ELSE table,
              err |-> NoErr, table |-> table, fallback |-> fb]

(***************************************************************************)
(* The structured card extractor (extractPropertyFromCard).                *)
(***************************************************************************)
\* card: the text of the first element under each selector group, "" when
\* the selector matches nothing:
\* [address, price, beds, baths, sqft, year, dom, description, agent, brokerage]
extractPropertyFromCard(card) ==
  LET addressText == TrimSpace(card.address)
      parts       == Split(addressText, ",")
      stateParts  == IF Len(parts) >= 3 THEN Fields(TrimSpace(parts[3])) ELSE <<>>
      p0 == IF addressText # <<>> /\ Len(parts) >= 3
              THEN [ZeroProperty EXCEPT
                      !.Address = TrimSpace(parts[1]),
                      !.City = TrimSpace(parts[2]),
                      !.State = IF Len(stateParts) >= 2 THEN stateParts[1] ELSE <<>>,
                      !.ZipCode = IF Len(stateParts) >= 2 THEN stateParts[2] ELSE <<>>]
              ELSE ZeroProperty
      price == parsePrice(card.price)
      sqft  == parseInt(card.sqft)
      p1 == [p0 EXCEPT
               !.Price = price,
               !.Bedrooms = parseInt(card.beds),
               !.Bathrooms = parseFloat(card.baths),
               !.SquareFeet = sqft,
               !.PricePerSqFt = pricePerSqFt(price, sqft),
               !.YearBuilt = parseInt(card.year),
               !.DaysOnMarket = parseInt(card.dom),
               !.Description = TrimSpace(card.description),
               !.Agent = TrimSpace(card.agent),
               !.Brokerage = TrimSpace(card.brokerage),
               !.PropertyType = "house",
               !.Status = "for_sale"]
  IN  IF p1.Address # <<>>
        THEN [p1 EXCEPT !.ID = generatePropertyID(p1.Address, p1.City)]
        ELSE p1

(***************************************************************************)
(* The identity a listing URL gives (ScrapePropertyDetail, lines 623-666,  *)
(* and scrapeRedfinProperty, lines 804-838).                               *)
(***************************************************************************)
RedfinHost == <<"r","e","d","f","i","n",".","c","o","m">>

\* lines 623-666: the address slug of a homes.com URL
homesURLIdentity(url) ==
  LET p0       == [ZeroProperty EXCEPT !.Status = "sold"]
      urlParts == Split(url, "/")
  IN  IF Len(urlParts) < 5 THEN p0
      ELSE
        LET addressParts == Split(urlParts[5], "-")
            twos == {i \in DOMAIN addressParts : ByteLen(addressParts[i]) = 2}
        IN  IF Len(addressParts) < 3 \/ twos = {} THEN p0
            ELSE
              LET i     == SetMin(twos)
                  state == ToUpper(addressParts[i])
                  city  == IF i > 1 THEN Title(addressParts[i - 1]) ELSE <<>>
                  before == IF i > 2 THEN SubSeq(addressParts, 1, i - 2) ELSE <<>>
                  addressComponents ==
                    [j \in DOMAIN SelectSeq(before, LAMBDA a : a # <<>>) |->
                       Title(SelectSeq(before, LAMBDA a : a # <<>>)[j])]
              IN  [p0 EXCEPT
                     !.Address = IF Len(addressComponents) > 0
                                   THEN Join(addressComponents, <<" ">>) ELSE <<>>,
                     !.City = city,
                     !.State = state]

\* lines 804-838: state, city and address-zip segments of a redfin.com URL
redfinURLIdentity(url) ==
  LET p0       == [ZeroProperty EXCEPT !.Status = "sold"]
      urlParts == Split(url, "/")
      states   == {i \in DOMAIN urlParts :
                     ByteLen(urlParts[i]) = 2 /\ ToUpper(urlParts[i]) = urlParts[i]}
  IN  IF states = {} THEN p0
      ELSE
        LET i  == SetMin(states)
            p1 == [p0 EXCEPT !.State = urlParts[i],
                             !.City = IF i + 1 <= Len(urlParts)
                                        THEN urlParts[i + 1] ELSE <<>>]
        IN  IF i + 2 > Len(urlParts) THEN p1
            ELSE
              LET addressPart == urlParts[i + 2]
                  dashes      == {k \in DOMAIN addressPart : addressPart[k] = "-"}
              IN  IF dashes = {} \/ SetMax(dashes) = 1 THEN p1
                  ELSE
                    LET last    == SetMax(dashes)
                        address == SubSeq(addressPart, 1, last - 1)
                        zipCode == SubSeq(addressPart, last + 1, Len(addressPart))
                        comps   == Split(address, "-")
                    IN  [p1 EXCEPT
                           !.Address = Join([j \in DOMAIN comps |-> Title(comps[j])],
                                            <<" ">>),
                           !.ZipCode = zipCode]

(***************************************************************************)
(* What the detail-page extractors take from a fetched page.               *)
(*                                                                         *)
(* A detail page is the record of what the patterns and selectors of the   *)
(* extractor find in it: one capture per anchored-text pattern (<<>> when   *)
(* the pattern does not match), the texts of the selected elements, and    *)
(* `text`, the part of the page text the category keywords are looked up   *)
(* in.                                                                     *)
(***************************************************************************)
KwCondo == <<"c","o","n","d","o">>

KwCondominium == <<"c","o","n","d","o","m","i","n","i","u","m">>

KwTownhouse == <<"t","o","w","n","h","o","u","s","e">>

KwTownhome == <<"t","o","w","n","h","o","m","e">>

KwApartment == <<"a","p","a","r","t","m","e","n","t">>

\* lines 764-771 and 995-1000: the trimmed, non-empty texts shorter than 100
featureTexts(items) ==
  SelectSeq([i \in DOMAIN items |-> TrimSpace(items[i])],
            LAMBDA f : f # <<>> /\ ByteLen(f) < 100)

\* lines 774-780: the category of a homes.com detail page
homesPropertyType(pageText) ==
  LET lowerText == ToLower(pageText)
  IN  IF Contains(lowerText, KwCondo) \/ Contains(lowerText, KwCondominium)
        THEN "condo"
      ELSE IF Contains(lowerText, KwTownhouse) \/ Contains(lowerText, KwTownhome)
        THEN "townhouse"
      ELSE "house"

\* lines 716-797: the fields of a fetched homes.com detail page are merged
\* into the record built from the URL
homesDetailMerge(property, pg) ==
  LET price == IF pg.price # <<>> THEN parsePrice(pg.price) ELSE property.Price
      sqft  == IF pg.sqft # <<>> THEN parseInt(pg.sqft) ELSE property.SquareFeet
      p1 == [property EXCEPT
               !.Price = price,
               !.SquareFeet = sqft,
               !.Bedrooms = IF pg.bed # <<>> THEN parseInt(pg.bed) ELSE @,
               !.Bathrooms = IF pg.bath # <<>> THEN parseFloat(pg.bath) ELSE @,
               !.YearBuilt = IF pg.year # <<>> THEN parseInt(pg.year) ELSE @,
               !.SoldDate = IF pg.sold # "" THEN pg.sold ELSE @,
               !.Description = IF pg.meta # <<>> THEN pg.meta[Len(pg.meta)] ELSE @,
               !.Features = featureTexts(pg.items),
               !.PropertyType = homesPropertyType(pg.text)]
      p2 == IF p1.Address # <<>>
              THEN [p1 EXCEPT !.ID = generatePropertyID(p1.Address, p1.City)]
              ELSE p1
      p3 == IF p2.City = Honolulu /\ p2.State = HI
              THEN [p2 EXCEPT !.ZipCode = Zip96822] ELSE p2
  IN  [p3 EXCEPT !.PricePerSqFt = pricePerSqFt(p3.Price, p3.SquareFeet)]

\* mutant: the keywords are looked up in the opposite order
redfinPropertyType_ApartmentFirst(pageText) ==
  LET lowerText == ToLower(pageText)
  IN  IF Contains(lowerText, KwApartment) THEN "apartment"
      ELSE IF Contains(lowerText, KwTownhouse) \/ Contains(lowerText, KwTownhome)
        THEN "townhouse"
      ELSE IF Contains(lowerText, KwCondominium) \/ Contains(lowerText, KwCondo)
        THEN "condo"
      ELSE "house"

\* lines 1056-1065: the category of a redfin.com detail page
redfinPropertyType(pageText) ==
  LET lowerText == ToLower(pageText)
  IN  IF Contains(lowerText, KwCondominium) \/ Contains(lowerText, KwCondo)
        THEN "condo"
      ELSE IF Contains(lowerText, KwTownhouse) \/ Contains(lowerText, KwTownhome)
        THEN "townhouse"
      ELSE IF Contains(lowerText, KwApartment) THEN "apartment"
      ELSE "house"

\* lines 976-981: the longest of the trimmed description texts, the first one
\* among equals
RECURSIVE longestDescription(_, _)
longestDescription(best, texts) ==
  IF texts = <<>> THEN best
  ELSE LET desc == TrimSpace(Head(texts))
       IN  longestDescription(
             IF desc # <<>> /\ ByteLen(desc) > ByteLen(best) THEN desc ELSE best,
             Tail(texts))

\* the last feature whose lower-cased text contains one of the words, or the
\* previous value
RECURSIVE lastFeatureWith(_, _, _)
lastFeatureWith(prev, features, words) ==
  IF features = <<>> THEN prev
  ELSE lastFeatureWith(
         IF \E w \in words : Contains(ToLower(Head(features)), w)
           THEN Head(features) ELSE prev,
         Tail(features), words)

\* the first text whose lower-cased form contains the word, or ""
firstTextWith(texts, word) ==
  LET hits == {i \in DOMAIN texts : Contains(ToLower(texts[i]), word)}
  IN  IF hits = {} THEN <<>> ELSE texts[SetMin(hits)]

\* lines 875-1075: the fields of a fetched redfin.com page are merged into the
\* record built from the URL
redfinDetailMerge(property, pg) ==
  LET price == IF pg.price # <<>> THEN parsePrice(pg.price) ELSE property.Price
      sqft  == IF pg.sqft # <<>> THEN parseInt(pg.sqft) ELSE property.SquareFeet
      remark == longestDescription(property.Description, pg.remarks)
      features == featureTexts(pg.items)
                  \o [i \in DOMAIN pg.patterns |-> TrimSpace(pg.patterns[i])]
      agents == [i \in DOMAIN pg.agents |-> TrimSpace(pg.agents[i])]
      p1 == [property EXCEPT
               !.Price = price,
               !.SquareFeet = sqft,
               !.Bedrooms = IF pg.bed # <<>> THEN parseInt(pg.bed) ELSE @,
               !.Bathrooms = IF pg.bath # <<>> THEN parseFloat(pg.bath) ELSE @,
               !.YearBuilt = IF pg.year # <<>> THEN parseInt(pg.year) ELSE @,
               !.SoldDate = IF pg.sold # "" THEN pg.sold ELSE @,
               !.LotSize = IF pg.lot # <<>> THEN parseFloat(pg.lot) ELSE @,
               !.DaysOnMarket = IF pg.days # <<>> THEN parseInt(pg.days) ELSE @,
               !.SchoolDistrict = IF pg.district # "" THEN pg.district ELSE @,
               !.ElementarySchool = IF pg.elementary # "" THEN pg.elementary ELSE @,
               !.MiddleSchool = IF pg.middle # "" THEN pg.middle ELSE @,
               !.HighSchool = IF pg.high # "" THEN pg.high ELSE @,
               !.PropertyCondition = IF pg.condition # "" THEN pg.condition ELSE @,
               !.PropertyTax = IF pg.tax # <<>> THEN <<"$">> \o pg.tax ELSE @,
               !.HOAFees = IF pg.hoa # <<>> THEN <<"$">> \o pg.hoa ELSE @,
               !.ParkingSpaces =
                  IF pg.garage # <<>> THEN parseInt(pg.garage)
                  ELSE IF pg.parking # <<>> THEN parseInt(pg.parking) ELSE @,
               !.Garage = IF pg.garage # <<>>
                            THEN pg.garage \o <<" ","c","a","r"," ","g","a","r","a","g","e">>
                            ELSE @,
               !.Description = IF remark = <<>> /\ pg.descText # <<>>
                                 THEN TrimSpace(pg.descText) ELSE remark,
               !.Features = features,
               !.Heating = lastFeatureWith(@, features, {<<"h","e","a","t","i","n","g">>}),
               !.Cooling = lastFeatureWith(@, features, {<<"c","o","o","l","i","n","g">>, <<"a","i","r">>}),
               !.Flooring = @ \o SelectSeq(features,
                              LAMBDA f : Contains(ToLower(f), <<"f","l","o","o","r">>)),
               !.Appliances = @ \o SelectSeq(features,
                                LAMBDA f : Contains(ToLower(f), <<"a","p","p","l","i","a","n","c","e">>)),
               !.Neighborhood = IF property.City = Honolulu
                                   /\ property.ZipCode = Zip96822
                                  THEN "Manoa" ELSE @,
               !.Agent = IF @ = <<>> THEN firstTextWith(agents, <<"a","g","e","n","t">>) ELSE @,
               !.Brokerage = IF @ = <<>> THEN firstTextWith(agents, <<"b","r","o","k","e","r">>) ELSE @,
               !.PropertyType = redfinPropertyType(pg.text)]
      p2 == [p1 EXCEPT !.ID = generatePropertyID(p1.Address, p1.City)]
  IN  [p2 EXCEPT !.PricePerSqFt = pricePerSqFt(p2.Price, p2.SquareFeet)]

(***************************************************************************)
(* The pagination and dedup controller (ScrapeNeighborhood).               *)
(***************************************************************************)
\* mutant: the loop admits one page more
loopCond_OneMore(page) == page <= MaxPages + 1

\* for page := 1; page <= 3; page++
loopCond(page) == page <= MaxPages

\* mutant: a short page does not end the crawl
lastPageSignal_Never(n) == FALSE

\* if len(pageProperties) < 20 { break }
lastPageSignal(n) == n < PageFull

EmptyMap == [k \in {} |-> ZeroProperty]

\* mutant: an identifier already in the map keeps its first record
MapPut_KeepFirst(m, prop) == m @@ (prop.ID :> prop)

\* propertyMap[prop.ID] = prop
MapPut(m, prop) == (prop.ID :> prop) @@ m

\* lines 141-146: the page's records are put into the map in page order
RECURSIVE mergePage(_, _)
mergePage(m, props) ==
  IF props = <<>> THEN m
  ELSE mergePage(IF Head(props).ID # <<>> THEN MapPut(m, Head(props)) ELSE m,
                 Tail(props))

\* lines 154-157: the map's values, one slice element per key; the slice
\* order is the map's iteration order, which Go leaves unspecified, so the
\* slice is modelled as the bag of its elements
mapValues(m) ==
  [v \in {m[k] : k \in DOMAIN m} |-> Cardinality({k \in DOMAIN m : m[k] = v})]

\* mutant: the records merged so far are returned next to the error
crawlFailure_Partial(m, page, err) ==
  [properties |-> mapValues(m), err |-> [err EXCEPT !.page = page]]

\* line 136: return nil, fmt.Errorf("failed to scrape page %d: %v", page, err)
crawlFailure(m, page, err) ==
  [properties |-> EmptyBag, err |-> [err EXCEPT !.page = page]]

\* lines 128-132: the URL of a page of the crawl
pageURL(args, page) ==
  [city |-> args.city, state |-> args.state, neighborhood |-> args.neighborhood,
   status |-> args.status, suffix |-> IF page = 1 THEN 0 ELSE page]

(***************************************************************************)
(* The result pages the site can answer with.                              *)
(***************************************************************************)
\* decimal digits of a number below 100
Digits(n) ==
  IF n < 10 THEN <<DigitChars[n + 1]>>
  ELSE <<DigitChars[(n \div 10) + 1], DigitChars[(n % 10) + 1]>>

\* ", Honolulu, HI 96822"
CityTail == <<",", " ">> \o Honolulu \o <<",", " ">> \o HI \o <<" ">> \o Zip96822

\* "$1,000,000 ... 2000 Sq Ft ... 3 Bed ... 2.5 Bath ... SOLD JAN 5, 2024 ..."
FullWindow ==
  [ price |-> <<"1",",","0","0","0",",","0","0","0">>,
    sqft  |-> <<"2","0","0","0">>, bed |-> <<"3">>, bath |-> <<"2",".","5">>,
    sold  |-> "JAN 5, 2024", days |-> <<"1","2">>, year |-> <<"1","9","9","0">> ]

\* the listings a page can lead with: [anchor, window]
LeadListings ==
  { \* "1 A St, Honolulu, HI 96822", price and area present
    [anchor |-> <<"1"," ","A"," ","S","t">> \o CityTail, window |-> FullWindow],
    \* the same listing written "1 a St , Honolulu, HI 96822", no area in reach
    [anchor |-> <<"1"," ","a"," ","S","t"," ">> \o CityTail,
     window |-> [FullWindow EXCEPT !.sqft = <<>>, !.price = <<"9","0","0">>]],
    \* "9 B Rd Honolulu, HI 96822": no comma after the street, so no address
    [anchor |-> <<"9"," ","B"," ","R","d"," ">> \o Honolulu \o <<",", " ">>
                  \o HI \o <<" ">> \o Zip96822,
     window |-> FullWindow],
    \* "9 B Rd, Honolulu, HI 96822" with no price in reach
    [anchor |-> <<"9"," ","B"," ","R","d">> \o CityTail,
     window |-> [FullWindow EXCEPT !.price = <<>>]],
    \* "8 C Dr, Honolulu, HI 96822" with the price "$0" and the area "2,000"
    [anchor |-> <<"8"," ","C"," ","D","r">> \o CityTail,
     window |-> [FullWindow EXCEPT !.price = <<"0">>,
                                   !.sqft = <<"2",",","0","0","0">>]],
    \* two apartments of one building, "2345 East Manoa Road Apartment 12"
    \* and "... Apartment 14", at different prices
    [anchor |-> <<
                   "2","3","4","5"," ","E","a","s","t"," ","M","a","n",
                   "o","a"," ","R","o","a","d"," ","A","p","a","r","t",
                   "m","e","n","t"," ","1","2" >>
                  \o CityTail,
     window |-> FullWindow],
    [anchor |-> <<
                   "2","3","4","5"," ","E","a","s","t"," ","M","a","n",
                   "o","a"," ","R","o","a","d"," ","A","p","a","r","t",
                   "m","e","n","t"," ","1","4" >>
                  \o CityTail,
     window |-> [FullWindow EXCEPT !.price = <<"7","5","0",",","0","0","0">>]] }

\* the i-th listing of the body of page p: "<i> A St, Honolulu, HI 96822" at a
\* price that differs from page to page
BodyListing(i, p) ==
  [ anchor |-> Digits(i) \o <<" ","A"," ","S","t">> \o CityTail,
    window |-> [ price |-> <<"5", DigitChars[p + 1], "0", ",", "0","0","0">>,
                 sqft |-> <<"1","0","0","0">>, bed |-> <<"3">>, bath |-> <<"2">>,
                 sold |-> "", days |-> <<>>, year |-> <<>> ] ]

PadCounts == {0, ShortPage, PageFull - 1, PageFull}

Leads == SeqsUpTo(LeadListings, MaxLead)

\* a page: freely chosen leading listings, then n body listings
PageDoc(lead, n, p) == lead \o [i \in 1..n |-> BodyListing(i, p)]

StatusCodes == {403}

FailedResponses ==
  {[kind |-> "transport", code |-> 0, doc |-> <<>>],
   [kind |-> "parse", code |-> 200, doc |-> <<>>]}
  \cup {[kind |-> "status", code |-> c, doc |-> <<>>] : c \in StatusCodes}

\* http.NewRequest rejects the URL
RequestFailure == [kind |-> "request", code |-> 0, doc |-> <<>>]

OkResponse(doc) == [kind |-> "ok", code |-> 200, doc |-> doc]

\* what scrapePage returns for each page the site can answer with (a table,
\* so that the extraction of a page is computed once)
Scraped ==
  [k \in Leads \X PadCounts \X (1..(MaxPages + 1)) |->
     scrapePage(OkResponse(PageDoc(k[1], k[2], k[3])))] @@ <<>>

(***************************************************************************)
(* Inputs of the detail-page and card extractors.                          *)
(***************************************************************************)
\* the listing URLs handed to ScrapePropertyDetail
HomesExampleURL ==
  <<
    "h","t","t","p","s",":","/","/","w","w","w",".","h","o","m","e","s",
    ".","c","o","m","/","p","r","o","p","e","r","t","y","/","2","8","1",
    "9","-","p","o","e","l","u","a","-","s","t","-","h","o","n","o","l",
    "u","l","u","-","h","i","/","n","2","0","7","s","q","k","l","8","v",
    "l","1","p","/" >>

\* a Honolulu listing whose slug holds no other two-letter token
HomesKnownRegionURL ==
  <<
    "h","t","t","p","s",":","/","/","w","w","w",".","h","o","m","e","s",
    ".","c","o","m","/","p","r","o","p","e","r","t","y","/","1","-","a",
    "-","h","o","n","o","l","u","l","u","-","h","i","/","x","/" >>

\* a Honolulu slug without street tokens
HomesNoStreetURL ==
  <<
    "h","t","t","p","s",":","/","/","w","w","w",".","h","o","m","e","s",
    ".","c","o","m","/","p","r","o","p","e","r","t","y","/","-","h","o",
    "n","o","l","u","l","u","-","h","i","/","x","/" >>

\* no slug at all
HomesNoSlugURL ==
  <<
    "h","t","t","p","s",":","/","/","w","w","w",".","h","o","m","e","s",
    ".","c","o","m","/","p","r","o","p","e","r","t","y","/" >>

\* a Honolulu listing that is on no sold page
HomesUnlistedURL ==
  <<
    "h","t","t","p","s",":","/","/","w","w","w",".","h","o","m","e","s",
    ".","c","o","m","/","p","r","o","p","e","r","t","y","/","9","-","b",
    "-","h","o","n","o","l","u","l","u","-","h","i","/" >>

\* a URL that http.NewRequest rejects (it holds a control character, "DEL")
HomesBadURL ==
  <<
    "h","t","t","p","s",":","/","/","w","w","w",".","h","o","m","e","s",
    ".","c","o","m","/","p","r","o","p","e","r","t","y","/","9","-","b",
    "-","h","o","n","o","l","u","l","u","-","h","i","/" >> \o <<"DEL">>

RedfinExampleURL ==
  <<
    "h","t","t","p","s",":","/","/","w","w","w",".","r","e","d","f","i",
    "n",".","c","o","m","/","H","I","/","H","o","n","o","l","u","l","u",
    "/","2","8","1","9","-","P","o","e","l","u","a","-","S","t","-","9",
    "6","8","2","2","/","h","o","m","e","/","8","8","5","1","3","6","1",
    "8" >>

RedfinNoStateURL ==
  <<
    "h","t","t","p","s",":","/","/","w","w","w",".","r","e","d","f","i",
    "n",".","c","o","m","/" >>

RedfinBadURL ==
  <<
    "h","t","t","p","s",":","/","/","w","w","w",".","r","e","d","f","i",
    "n",".","c","o","m","/","H","I","/","H","o","n","o","l","u","l","u",
    "/" >> \o <<"DEL">>

\* a second-site URL with a two-digit segment before the state
RedfinNumberedURL ==
  <<
    "h","t","t","p","s",":","/","/","w","w","w",".","r","e","d","f","i",
    "n",".","c","o","m","/","n","e","i","g","h","b","o","r","h","o","o",
    "d","/","5","5","/","H","I","/","H","o","n","o","l","u","l","u","/",
    "2","8","1","9","-","P","o","e","l","u","a","-","S","t","-","9","6",
    "8","2","2" >>

DetailURLs ==
  { HomesExampleURL, HomesKnownRegionURL, HomesNoStreetURL, HomesNoSlugURL,
    HomesUnlistedURL, HomesBadURL, RedfinExampleURL, RedfinNoStateURL, RedfinBadURL,
    RedfinNumberedURL }

\* http.NewRequest parses the URL and rejects control characters
urlValid(url) == \A i \in DOMAIN url : url[i] # "DEL"

\* a homes.com detail page with every pattern matching
HomesFullPage ==
  [ price |-> <<"1",",","0","0","0",",","0","0","0">>,
    sqft |-> <<"2","0","0","0">>, bed |-> <<"3">>, bath |-> <<"2",".","5">>,
    year |-> <<"1","9","9","0">>, sold |-> "JAN 5, 2024",
    meta |-> << <<"N","i","c","e">> >>,
    items |-> << <<" ","P","o","o","l"," ">>, <<" ">> >>,
    text |-> <<"T","o","w","n","h","o","m","e"," ","o","r"," ","C","o","n","d","o">> ]

HomesDetailPages ==
  { HomesFullPage,
    [HomesFullPage EXCEPT !.sqft = <<>>, !.text = <<>>],
    [HomesFullPage EXCEPT !.price = <<>>, !.sqft = <<"2",",","0","0","0">>,
                          !.text = <<"T","o","w","n","h","o","u","s","e">>],
    [ price |-> <<>>, sqft |-> <<>>, bed |-> <<>>, bath |-> <<>>, year |-> <<>>,
      sold |-> "", meta |-> <<>>, items |-> <<>>, text |-> <<>> ] }

\* a redfin.com page with every pattern matching
RedfinFullPage ==
  [ price |-> <<"1",",","0","0","0",",","0","0","0",".","0","0">>,
    sqft |-> <<"2","0","0","0">>, bed |-> <<"3">>, bath |-> <<"2",".","5">>,
    year |-> <<"1","9","9","0">>, sold |-> "JAN 5, 2024",
    lot |-> <<"0",".","2","5">>, days |-> <<"1","2">>,
    district |-> "Honolulu", elementary |-> "Noelani", middle |-> "Stevenson",
    high |-> "Roosevelt", condition |-> "Good",
    tax |-> <<"4",",","2","0","0">>, hoa |-> <<"3","5","0">>,
    garage |-> <<"2">>, parking |-> <<>>,
    remarks |-> << <<"V","i","e","w">>, <<" ","L","a","n","a","i"," ">> >>,
    descText |-> <<"O","l","d">>,
    items |-> << <<"G","a","s"," ","H","e","a","t","i","n","g">>, <<" ","W","o","o","d"," ","F","l","o","o","r"," ">> >>,
    patterns |-> << <<"C","e","n","t","r","a","l"," ","A","i","r">> >>,
    agents |-> << <<"A","g","e","n","t"," ","A","n","n">>, <<"B","r","o","k","e","r"," ","B","o","b">> >>,
    text |-> <<
    "A","p","a","r","t","m","e","n","t"," ","T","o","w","n","h","o","u",
    "s","e"," ","C","o","n","d","o","m","i","n","i","u","m" >> ]

RedfinDetailPages ==
  { RedfinFullPage,
    [RedfinFullPage EXCEPT !.sqft = <<>>, !.garage = <<>>, !.parking = <<"1">>,
                           !.remarks = <<>>, !.text = <<
    "a","p","a","r","t","m","e","n","t"," ","T","O","W","N","H","O","M",
    "E" >>],
    [RedfinFullPage EXCEPT !.price = <<>>, !.sqft = <<"2",",","0","0","0">>,
                           !.text = <<"A","p","a","r","t","m","e","n","t">>],
    [ price |-> <<>>, sqft |-> <<>>, bed |-> <<>>, bath |-> <<>>, year |-> <<>>,
      sold |-> "", lot |-> <<>>, days |-> <<>>, district |-> "",
      elementary |-> "", middle |-> "", high |-> "", condition |-> "",
      tax |-> <<>>, hoa |-> <<>>, garage |-> <<>>, parking |-> <<>>,
      remarks |-> <<>>, descText |-> <<>>, items |-> <<>>, patterns |-> <<>>,
      agents |-> <<>>, text |-> <<>> ] }

\* a listing card with every selector matching
FullCard ==
  [ address |-> <<" ">> \o <<"1"," ","A"," ","S","t">> \o CityTail,
    price |-> <<"$","1",",","0","0","0",",","0","0","0">>,
    beds |-> <<"3"," ","b","d">>, baths |-> <<"2",".","5"," ","b","a">>,
    sqft |-> <<"2","0","0","0"," ","s","q","f","t">>,
    year |-> <<"1","9","9","0">>, dom |-> <<"1","2">>,
    description |-> <<"N","i","c","e">>, agent |-> <<"A","n","n">>,
    brokerage |-> <<"B","o","b">> ]

Cards ==
  { FullCard,
    [FullCard EXCEPT !.sqft = <<>>],
    [FullCard EXCEPT !.price = <<>>, !.address = <<"1"," ","A"," ","S","t">>],
    [FullCard EXCEPT !.price = <<"$","9","0","0">>,
                     !.sqft = <<"2",",","0","0","0">>] }

\* the sold pages the site answers with during a detail call: a page with at
\* most one leading listing, or one full page of body listings
DetailSoldPages ==
  {<<l, 0>> : l \in {<<>>} \cup {<<x>> : x \in LeadListings}}
  \cup {<< <<>>, PageFull >>}

(***************************************************************************)
(* Inputs of the chunk computation: result pages with their matches.       *)
(***************************************************************************)
MaxAnchors == 2

AnchorTexts ==
  { <<"1"," ","A"," ","S","t">> \o CityTail,
    <<"9"," ","B"," ","R","d">> \o CityTail }

AnchorOffsets == {0, 40, 499, 500, 501, 1200, 1700, 2400}

PageLens == {70, 530, 1230, 1730, 2430, 4000}

\* the matches are in text order, do not overlap and lie inside the text
matchesFit(len, matches) ==
  /\ \A i \in 1..(Len(matches) - 1) :
       matches[i].off + Len(matches[i].anchor) <= matches[i + 1].off
  /\ \A i \in DOMAIN matches : matches[i].off + Len(matches[i].anchor) <= len

ChunkPages ==
  { [len |-> len, matches |-> ms] :
      len \in PageLens,
      ms \in { ms \in SeqsUpTo([off : AnchorOffsets, anchor : AnchorTexts], MaxAnchors) :
                 \E len \in PageLens : matchesFit(len, ms) } }

(***************************************************************************)
(* Inputs of the identifier synthesizer.                                   *)
(***************************************************************************)
\* characters of the freely chosen prefix: a lower-case letter, an upper-case
\* letter, a digit, a blank and a non-ASCII letter
IdAlphabet == {"b", "B", "7", " ", "E'"}

\* fixed suffixes: nothing, one half of the word "unknown", and runs of "x"
\* that bring the cleaned text to the truncation length
IdTails ==
  { <<>>, <<"U","n">>,
    Repeat(<<"x">>, PropIDMaxLen - 1), Repeat(<<"x">>, PropIDMaxLen) }

AddrInputs == {h \o t : h \in SeqsUpTo(IdAlphabet, MaxIdHead), t \in IdTails}

CityInputs == { <<>>, Honolulu, <<"k","n","o","w","n">> }

\* the housing-trends rows a statistics page can hold: none; a full table; a
\* median row without a number; a table without the median row; a median of 0
StatsRows ==
  { <<>>,
    << [label |-> LblMedianSale, value |-> <<"$","1",",","2","5","0",",","0","0","0">>],
       [label |-> LblYoY, value |-> <<"-","5",".","5","%">>],
       [label |-> LblHomesForSale, value |-> <<"1","2">>] >>,
    << [label |-> LblMedianSale, value |-> <<"N","/","A">>],
       [label |-> LblAvgPerSqFt, value |-> <<"$","6","5","0">>] >>,
    << [label |-> LblAvgPerSqFt, value |-> <<"$","6","5","0">>],
       [label |-> LblSales12, value |-> <<"4","0">>],
       [label |-> LblMedianSingleFamily, value |-> <<"$","1",",","5","0","0",",","0","0","0">>],
       [label |-> LblMedianTownhouse, value |-> <<"$","8","0","0",",","0","0","0">>] >>,
    << [label |-> LblMedianSale, value |-> <<"$","0">>] >> }

\* the captures of the text patterns in a statistics page: none, all, some
StatsTexts ==
  { [ median |-> <<>>,
      ppsf |-> <<>>,
      dom |-> <<>>,
      down |-> <<>>,
      homesForSaleIn |-> <<>>,
      homesInManoa |-> <<>>,
      sales |-> <<>> ],
    [ median |-> <<"1",",","1","0","0",",","0","0","0">>,
      ppsf |-> <<"7","0","0">>,
      dom |-> <<"3","0">>,
      down |-> <<"3">>,
      homesForSaleIn |-> <<"1","5">>,
      homesInManoa |-> <<"1","6">>,
      sales |-> <<"5","0">> ],
    [ median |-> <<>>,
      ppsf |-> <<>>,
      dom |-> <<"3","0">>,
      down |-> <<"3">>,
      homesForSaleIn |-> <<>>,
      homesInManoa |-> <<>>,
      sales |-> <<>> ],
    [ median |-> <<"1",",","1","0","0",",","0","0","0">>,
      ppsf |-> <<>>,
      dom |-> <<>>,
      down |-> <<>>,
      homesForSaleIn |-> <<>>,
      homesInManoa |-> <<>>,
      sales |-> <<>> ],
    [ median |-> <<>>,
      ppsf |-> <<"7","0","0">>,
      dom |-> <<>>,
      down |-> <<>>,
      homesForSaleIn |-> <<"1","5">>,
      homesInManoa |-> <<"1","6">>,
      sales |-> <<"5","0">> ] }

StatsDocs == {[rows |-> r, text |-> t] : r \in StatsRows, t \in StatsTexts}

\* what the site can answer to the request of a statistics page: the page, a
\* refusal that carries a page, or no response
StatsResponses ==
  {[kind |-> "ok", code |-> 200, doc |-> d] : d \in StatsDocs}
  \cup {[kind |-> "status", code |-> c, doc |-> d] : c \in StatusCodes, d \in StatsDocs}
  \cup {[kind |-> k, code |-> 0, doc |-> <<>>] : k \in {"request", "transport", "parse"}}

StatsFns == {"ScrapeNeighborhoodStats", "ScrapeMarketStats"}

\* Area of the record, lines 192 and 272
statsArea(fn) ==
  IF fn = "ScrapeNeighborhoodStats" THEN "manoa, Honolulu, HI" ELSE "Honolulu, HI"

\* the concurrent callers of one HomesScraper
Calls == {1, 2}

\* the pages the site answers concurrent crawls with: one listing, a short
\* page, a full page
ConcPages ==
  {<<l, 0>> : l \in {x \in Leads : Len(x) = 1}}
  \cup {<<(<<>>), ShortPage>>, <<(<<>>), PageFull>>}

\* text fragments handed to the field parsers: empty, clean, with a currency
\* symbol, with thousands separators, with a unit, with a sign, without any
\* digit, only a separator, and digit runs at and beyond the integer range
ParseInputs ==
  { <<>>,
    <<"4","2">>,
    <<"$","4","2",".","0","0">>,
    <<",">>,
    <<"a","b","c">>,
    <<"1",",","2","3","4">>,
    <<"1","2","3","4">>,
    <<"$","1",",","2","5","0",",","0","0","0">>,
    <<"-","5",".","5","%">>,
    <<"5","%">>,
    <<"3",".","5","0">>,
    <<"2","1","4","7","4","8","3","6","4","7">>,
    <<"2","1","4","7","4","8","3","6","4","8">>,
    <<"9","9","9","9","9","9","9","9","9","9","9">>,
    <<"2",",","0","0","0"," ","S","q"," ","F","t">>,
    <<"$","0">> }

\* the number of parser applications to one fragment
MaxParseCalls == 2

Parsers == {"parsePrice", "parseInt", "parseFloat", "parsePercent"}

\* the value a parser returns for a fragment
applyParser(fn, s) ==
  CASE fn = "parsePrice"   -> parsePrice(s)
    [] fn = "parseInt"     -> parseInt(s)
    [] fn = "parseFloat"   -> parseFloat(s)
    [] fn = "parsePercent" -> parsePercent(s)

(***************************************************************************)
(* The MCP server's WebSocket message handling (package server).           *)
(***************************************************************************)
\* the WebSocket connections
Conns == {1, 2}

\* JSON-RPC error codes of the handlers; 0 stands for a result
ErrMethodNotFound == -32601

ErrInvalidParams == -32602

ErrInternal == -32603

ErrNotInitialized == -32002

Methods == {"initialize", "tools/list", "tools/call", "resources/list", "ping"}

\* a message as the handlers see it: its method, whether json.Unmarshal
\* accepts its params, and whether the registry's tool call succeeds
WsMessages ==
  {[method |-> m, paramsOK |-> TRUE, toolOK |-> TRUE] : m \in Methods}
  \cup {[method |-> "initialize", paramsOK |-> FALSE, toolOK |-> TRUE],
        [method |-> "tools/call", paramsOK |-> FALSE, toolOK |-> TRUE],
        [method |-> "tools/call", paramsOK |-> TRUE, toolOK |-> FALSE]}

\* mutant: the handlers serve a client that is not initialized
rejectsUninitialized_Off(initialized) == FALSE

\* if !client.initialized { ... -32002 }
rejectsUninitialized(initialized) == ~initialized

\* handleInitialize: [code, initialized after, registry reached]
handleInitialize(initialized, message) ==
  IF ~message.paramsOK
    THEN [code |-> ErrInvalidParams, initialized |-> initialized, reached |-> FALSE]
    ELSE [code |-> 0, initialized |-> TRUE, reached |-> FALSE]

\* handleToolsList2 and handleResourcesList2
handleList(initialized, message) ==
  IF rejectsUninitialized(initialized)
    THEN [code |-> ErrNotInitialized, initialized |-> initialized, reached |-> FALSE]
    ELSE [code |-> 0, initialized |-> initialized, reached |-> TRUE]

\* handleToolCall
handleToolCall(initialized, message) ==
  IF rejectsUninitialized(initialized)
    THEN [code |-> ErrNotInitialized, initialized |-> initialized, reached |-> FALSE]
  ELSE IF ~message.paramsOK
    THEN [code |-> ErrInvalidParams, initialized |-> initialized, reached |-> FALSE]
  ELSE IF ~message.toolOK
    THEN [code |-> ErrInternal, initialized |-> initialized, reached |-> TRUE]
  ELSE [code |-> 0, initialized |-> initialized, reached |-> TRUE]

\* handleMessage: the switch on message.Method
handleMessage(initialized, message) ==
  CASE message.method = "initialize" -> handleInitialize(initialized, message)
    [] message.method = "tools/list" -> handleList(initialized, message)
    [] message.method = "tools/call" -> handleToolCall(initialized, message)
    [] message.method = "resources/list" -> handleList(initialized, message)
    [] OTHER -> [code |-> ErrMethodNotFound, initialized |-> initialized,
                 reached |-> FALSE]

(***************************************************************************)
(* The MCP server's HTTP JSON-RPC endpoint (POST /, handleHTTPMCP).        *)
(***************************************************************************)
ErrParse == -32700

\* number of POST / requests of one behaviour
MaxPosts == 3

\* handleHTTPInitialize: the params are not read
handleHTTPInitialize(message) == [code |-> 0, reached |-> FALSE]

\* handleHTTPToolsList and handleHTTPResourcesList
handleHTTPList(message) == [code |-> 0, reached |-> TRUE]

\* handleHTTPToolCall
handleHTTPToolCall(message) ==
  IF ~message.paramsOK THEN [code |-> ErrInvalidParams, reached |-> FALSE]
  ELSE IF ~message.toolOK THEN [code |-> ErrInternal, reached |-> TRUE]
  ELSE [code |-> 0, reached |-> TRUE]

\* handleHTTPMCP: the body is decoded, then the switch on request.Method
handleHTTPMCP(decoded, message) ==
  IF ~decoded THEN [code |-> ErrParse, reached |-> FALSE]
  ELSE CASE message.method = "initialize" -> handleHTTPInitialize(message)
         [] message.method = "tools/list" -> handleHTTPList(message)
         [] message.method = "tools/call" -> handleHTTPToolCall(message)
         [] message.method = "resources/list" -> handleHTTPList(message)
         [] OTHER -> [code |-> ErrMethodNotFound, reached |-> FALSE]

(***************************************************************************)
(* State.                                                                  *)
(***************************************************************************)
VARIABLES
  idCalls,     \* generatePropertyID calls made so far: [address, city, id]
  pc,          \* position of the ScrapeNeighborhood call: idle, loop, done
  args,        \* its arguments
  page,        \* its loop variable
  propertyMap, \* its dedup map
  fetches,     \* history: the scrapePage calls it made, in order
  yields,      \* history: pageProperties of every page scraped without error
  ret,         \* its return value: [properties, err]
  dpc,         \* position of the detail or card call: idle, sold_crawl,
               \* fetch, done
  dsite,       \* its extractor: card, homes, redfin
  durl,        \* its url argument
  dprop,       \* the record it is building
  dtrace,      \* history: the stages it went through
  dfetch,      \* history: the outcomes of its direct fetches of the url
  dpage,       \* history: the pages those fetches returned
  dret,        \* its return value: [nil, property, err]
  parseIn,     \* the fragment handed to the field parsers
  parseCalls,  \* the parser applications made so far: [fn, out]
  spc,         \* position of the statistics call: idle, done
  sfn,         \* the extractor called
  sresp,       \* history: the response to its request
  sret,        \* its return value [nil, stats, err], with what the table rows
               \* gave and whether the text patterns were consulted
  cpc,         \* per concurrent ScrapeNeighborhood call: idle, loop, done
  cpage,       \* per call: its loop variable
  cmaps,       \* the dedup maps of the calls
  calone,      \* history, per call: the map built from the call's own pages
               \* only, as the call builds it when no other call runs
  cresps,      \* history, per call: the site's answers to its scrapePage calls
               \* (the page of an answer is named by its lead and body count)
  cret,        \* per call: its return value [properties, err]
  corder,      \* history: the calls in the order of their loop iterations
  wsState,     \* per WebSocket connection: none, open, closed
  wsInit,      \* per connection: client.initialized
  wsEverInit,  \* history, per connection: an initialize has succeeded on it
  wsLast,      \* history: the last message handled, [conn, message, wasInit,
               \* code, reached, sent]
  wpc,         \* position of the scan of a result page: idle, loop, done
  wpage,       \* the page scanned: [len, matches]
  wchunks,     \* the chunk bounds [start, end] of the anchors handled so far
  httpLog,     \* history: the POST / requests handled, each [decoded,
               \* message, wasInit, code, reached]
  httpWsInit   \* history: client.initialized of a WebSocket client that has
               \* sent the messages posted so far

crawlVars == <<pc, args, page, propertyMap, fetches, yields, ret>>

detailVars == <<dpc, dsite, durl, dprop, dtrace, dfetch, dpage, dret>>

parseVars == <<parseIn, parseCalls>>

statsVars == <<spc, sfn, sresp, sret>>

concVars == <<cpc, cpage, cmaps, calone, cresps, cret, corder>>

wsVars == <<wsState, wsInit, wsEverInit, wsLast>>

winVars == <<wpc, wpage, wchunks>>

httpVars == <<httpLog, httpWsInit>>

otherVars == <<parseVars, statsVars, concVars, wsVars, winVars, httpVars>>

vars == <<idCalls, crawlVars, detailVars, otherVars>>

\* everything but the state of the server
scraperVars == <<idCalls, crawlVars, detailVars, parseVars, statsVars, concVars,
                 winVars>>

NoArgs == [city |-> "", state |-> "", neighborhood |-> "", status |-> "",
           urlOK |-> TRUE]

NoRet == [properties |-> EmptyBag, err |-> NoErr]

CrawlIdle ==
  /\ pc = "idle"
  /\ args = NoArgs
  /\ page = 0
  /\ propertyMap = EmptyMap
  /\ fetches = <<>>
  /\ yields = <<>>
  /\ ret = NoRet

NoDetailRet == [nil |-> TRUE, property |-> ZeroProperty, err |-> NoErr]

DetailIdle ==
  /\ dpc = "idle"
  /\ dsite = ""
  /\ durl = <<>>
  /\ dprop = ZeroProperty
  /\ dtrace = <<>>
  /\ dfetch = <<>>
  /\ dpage = <<>>
  /\ dret = NoDetailRet

ParseIdle == parseIn = <<>> /\ parseCalls = <<>>

NoStatsRet == [nil |-> TRUE, stats |-> NoStats, err |-> NoErr,
               table |-> NoStats, fallback |-> FALSE]

StatsIdle == spc = "idle" /\ sfn = "" /\ sresp = <<>> /\ sret = NoStatsRet

ConcIdle ==
  /\ cpc = [c \in Calls |-> "idle"]
  /\ cpage = [c \in Calls |-> 0]
  /\ cmaps = [c \in Calls |-> EmptyMap]
  /\ calone = [c \in Calls |-> EmptyMap]
  /\ cresps = [c \in Calls |-> <<>>]
  /\ cret = [c \in Calls |-> NoRet]
  /\ corder = <<>>

NoMessage == [conn |-> 0, message |-> [method |-> "", paramsOK |-> TRUE,
                                        toolOK |-> TRUE],
              wasInit |-> FALSE, code |-> 0, reached |-> FALSE, sent |-> FALSE]

WsIdle ==
  /\ wsState = [c \in Conns |-> "none"]
  /\ wsInit = [c \in Conns |-> FALSE]
  /\ wsEverInit = [c \in Conns |-> FALSE]
  /\ wsLast = NoMessage

NoPage == [len |-> 0, matches |-> <<>>]

WinIdle == wpc = "idle" /\ wpage = NoPage /\ wchunks = <<>>

HttpIdle == httpLog = <<>> /\ httpWsInit = FALSE

OthersIdle == ParseIdle /\ StatsIdle /\ ConcIdle /\ WsIdle /\ WinIdle /\ HttpIdle

(***************************************************************************)
(* Specification of the identifier synthesizer: a caller applies           *)
(* generatePropertyID to inputs drawn from AddrInputs x CityInputs.        *)
(***************************************************************************)
InitID == idCalls = <<>> /\ CrawlIdle /\ DetailIdle /\ OthersIdle

GenerateID(a, c) ==
  /\ Len(idCalls) < MaxIdCalls
  /\ idCalls' = Append(idCalls,
                       [address |-> a, city |-> c, id |-> generatePropertyID(a, c)])
  /\ UNCHANGED <<crawlVars, detailVars, otherVars>>

NextID == \E a \in AddrInputs, c \in CityInputs : GenerateID(a, c)

SpecID == InitID /\ [][NextID]_vars

(***************************************************************************)
(* Specification of the field parsers: a caller holds one text fragment    *)
(* and applies the parsers to it.                                          *)
(***************************************************************************)
InitParse ==
  /\ idCalls = <<>> /\ CrawlIdle /\ DetailIdle
  /\ parseIn \in ParseInputs
  /\ parseCalls = <<>>
  /\ StatsIdle /\ ConcIdle /\ WsIdle /\ WinIdle /\ HttpIdle

ApplyParser(fn) ==
  /\ Len(parseCalls) < MaxParseCalls
  /\ parseCalls' = Append(parseCalls, [fn |-> fn, out |-> applyParser(fn, parseIn)])
  /\ UNCHANGED <<idCalls, crawlVars, detailVars, parseIn, statsVars, concVars, wsVars, winVars, httpVars>>

NextParse == \E fn \in Parsers : ApplyParser(fn)

SpecParse == InitParse /\ [][NextParse]_vars

(***************************************************************************)
(* Specification of one statistics call: the request, the response, and    *)
(* the extraction are one step.                                            *)
(***************************************************************************)
InitStats == idCalls = <<>> /\ CrawlIdle /\ DetailIdle /\ OthersIdle

CallStats(fn, resp) ==
  /\ spc = "idle"
  /\ spc' = "done"
  /\ sfn' = fn
  /\ sresp' = <<resp>>
  /\ sret' = scrapeStats(fn, statsArea(fn), resp)
  /\ UNCHANGED <<idCalls, crawlVars, detailVars, parseVars, concVars, wsVars, winVars, httpVars>>

NextStats == \E fn \in StatsFns, resp \in StatsResponses : CallStats(fn, resp)

SpecStats == InitStats /\ [][NextStats]_vars

(***************************************************************************)
(* Specification of two concurrent ScrapeNeighborhood calls on the same    *)
(* HomesScraper.  The scraper holds the HTTP client only; page and         *)
(* propertyMap are locals of the call.  A step is one loop iteration of    *)
(* one call, and the steps of the calls interleave freely.                 *)
(***************************************************************************)
\* mutant: the calls use one map
ownMap_Shared(c) == 1

\* line 120: propertyMap := make(map[string]Property), a local of call c
ownMap(c) == c

InitConc == idCalls = <<>> /\ CrawlIdle /\ DetailIdle /\ OthersIdle

\* lines 117-126
ConcCall(c) ==
  /\ cpc[c] = "idle"
  /\ cpc' = [cpc EXCEPT ![c] = "loop"]
  /\ cpage' = [cpage EXCEPT ![c] = 1]
  /\ cmaps' = [cmaps EXCEPT ![ownMap(c)] = EmptyMap]
  /\ calone' = [calone EXCEPT ![c] = EmptyMap]
  /\ UNCHANGED <<idCalls, crawlVars, detailVars, parseVars, statsVars, wsVars, winVars, httpVars,
                 cresps, cret, corder>>

\* lines 134-137: scrapePage fails and call c returns
ConcPageFails(c) ==
  /\ cpc[c] = "loop" /\ loopCond(cpage[c])
  /\ \E r \in FailedResponses :
       /\ cresps' = [cresps EXCEPT ![c] = Append(@, r)]
       /\ cret' = [cret EXCEPT
                     ![c] = crawlFailure(cmaps[ownMap(c)], cpage[c], scrapePage(r).err)]
  /\ cpc' = [cpc EXCEPT ![c] = "done"]
  /\ corder' = Append(corder, c)
  /\ UNCHANGED <<idCalls, crawlVars, detailVars, parseVars, statsVars, wsVars, winVars, httpVars,
                 cpage, cmaps, calone>>

\* lines 134-152, no break: the page is merged and the loop of c goes on
ConcPageContinues(c) ==
  /\ cpc[c] = "loop" /\ loopCond(cpage[c])
  /\ \E pg \in ConcPages :
       LET out == Scraped[<<pg[1], pg[2], cpage[c]>>]
       IN  /\ ~lastPageSignal(Len(out.properties))
           /\ loopCond(cpage[c] + 1)
           /\ cresps' = [cresps EXCEPT ![c] = Append(@, OkResponse(pg))]
           /\ cmaps' = [cmaps EXCEPT
                          ![ownMap(c)] = mergePage(cmaps[ownMap(c)], out.properties)]
           /\ calone' = [calone EXCEPT ![c] = mergePage(@, out.properties)]
  /\ cpage' = [cpage EXCEPT ![c] = @ + 1]
  /\ corder' = Append(corder, c)
  /\ UNCHANGED <<idCalls, crawlVars, detailVars, parseVars, statsVars, wsVars, winVars, httpVars, cpc, cret>>

\* lines 134-160: the page is merged, the loop of c ends and the values of
\* its map are returned
ConcPageEnds(c) ==
  /\ cpc[c] = "loop" /\ loopCond(cpage[c])
  /\ \E pg \in ConcPages :
       LET out == Scraped[<<pg[1], pg[2], cpage[c]>>]
       IN  /\ lastPageSignal(Len(out.properties)) \/ ~loopCond(cpage[c] + 1)
           /\ cresps' = [cresps EXCEPT ![c] = Append(@, OkResponse(pg))]
           /\ cmaps' = [cmaps EXCEPT
                          ![ownMap(c)] = mergePage(cmaps[ownMap(c)], out.properties)]
           /\ calone' = [calone EXCEPT ![c] = mergePage(@, out.properties)]
           /\ cpage' = [cpage EXCEPT
                          ![c] = IF lastPageSignal(Len(out.properties)) THEN @
                                 ELSE @ + 1]
           /\ cret' = [cret EXCEPT
                         ![c] = [properties |-> mapValues(cmaps'[ownMap(c)]),
                                 err |-> NoErr]]
  /\ cpc' = [cpc EXCEPT ![c] = "done"]
  /\ corder' = Append(corder, c)
  /\ UNCHANGED <<idCalls, crawlVars, detailVars, parseVars, statsVars, wsVars, winVars, httpVars>>

NextConc ==
  \E c \in Calls :
    \/ ConcCall(c)
    \/ ConcPageFails(c)
    \/ ConcPageContinues(c)
    \/ ConcPageEnds(c)

SpecConc == InitConc /\ [][NextConc]_vars

(***************************************************************************)
(* Specification of the scan of one result page by scrapePage: one step    *)
(* per iteration of the loop over the matches of the address pattern.      *)
(***************************************************************************)
InitWin == idCalls = <<>> /\ CrawlIdle /\ DetailIdle /\ OthersIdle

\* lines 361-374: the text of the page and the matches of the address pattern
ScanPage(pg) ==
  /\ wpc = "idle"
  /\ matchesFit(pg.len, pg.matches)
  /\ wpage' = pg
  /\ wchunks' = <<>>
  /\ wpc' = IF pg.matches = <<>> THEN "done" ELSE "loop"
  /\ UNCHANGED <<idCalls, crawlVars, detailVars, parseVars, statsVars, concVars,
                 wsVars, httpVars>>

\* lines 376-409: the chunk of the next match
ScanAnchor ==
  /\ wpc = "loop"
  /\ wchunks' = Append(wchunks, chunkBounds(wpage, Len(wchunks) + 1))
  /\ wpc' = IF Len(wchunks) + 1 = Len(wpage.matches) THEN "done" ELSE "loop"
  /\ UNCHANGED <<idCalls, crawlVars, detailVars, parseVars, statsVars, concVars,
                 wsVars, httpVars, wpage>>

NextWin ==
  \/ \E pg \in ChunkPages : ScanPage(pg)
  \/ ScanAnchor

SpecWin == InitWin /\ [][NextWin]_vars

(***************************************************************************)
(* Specification of the HTTP JSON-RPC endpoint: a client posts requests    *)
(* one after the other.  httpWsInit follows what handleMessage would make  *)
(* of client.initialized on a WebSocket connection that carries the same   *)
(* messages.                                                               *)
(***************************************************************************)
InitHttp == idCalls = <<>> /\ CrawlIdle /\ DetailIdle /\ OthersIdle

\* one POST / handled by handleHTTPMCP
HttpPost(decoded, message) ==
  /\ Len(httpLog) < MaxPosts
  /\ LET out == handleHTTPMCP(decoded, message)
     IN  httpLog' = Append(httpLog,
                           [decoded |-> decoded, message |-> message,
                            wasInit |-> httpWsInit, code |-> out.code,
                            reached |-> out.reached])
  /\ httpWsInit' = IF decoded THEN handleMessage(httpWsInit, message).initialized
                   ELSE httpWsInit
  /\ UNCHANGED <<scraperVars, wsVars>>

NextHttp == \E decoded \in BOOLEAN, message \in WsMessages : HttpPost(decoded, message)

SpecHttp == InitHttp /\ [][NextHttp]_vars

(***************************************************************************)
(* Specification of the server's WebSocket connections: each connection    *)
(* has its own Client and its messages are handled one after the other.    *)
(***************************************************************************)
InitWs == idCalls = <<>> /\ CrawlIdle /\ DetailIdle /\ OthersIdle

\* handleWebSocket up to the read loop: a new Client, not initialized
WsConnect(c) ==
  /\ wsState[c] = "none"
  /\ wsState' = [wsState EXCEPT ![c] = "open"]
  /\ wsInit' = [wsInit EXCEPT ![c] = FALSE]
  /\ UNCHANGED <<scraperVars, httpVars, wsEverInit, wsLast>>

\* one round of the read loop: ReadJSON, handleMessage, WriteJSON; a failed
\* write ends the loop and the connection
WsReceive(c, message, writeOK) ==
  /\ wsState[c] = "open"
  /\ LET out == handleMessage(wsInit[c], message)
     IN  /\ wsInit' = [wsInit EXCEPT ![c] = out.initialized]
         /\ wsEverInit' = [wsEverInit EXCEPT
                             ![c] = @ \/ (message.method = "initialize" /\ out.code = 0)]
         /\ wsLast' = [conn |-> c, message |-> message, wasInit |-> wsInit[c],
                       code |-> out.code, reached |-> out.reached,
                       sent |-> writeOK]
  /\ wsState' = [wsState EXCEPT ![c] = IF writeOK THEN "open" ELSE "closed"]
  /\ UNCHANGED <<scraperVars, httpVars>>

\* ReadJSON fails: the loop ends, the connection is closed and forgotten
WsClose(c) ==
  /\ wsState[c] = "open"
  /\ wsState' = [wsState EXCEPT ![c] = "closed"]
  /\ UNCHANGED <<scraperVars, httpVars, wsInit, wsEverInit, wsLast>>

NextWs ==
  \E c \in Conns :
    \/ WsConnect(c)
    \/ \E message \in WsMessages, writeOK \in BOOLEAN : WsReceive(c, message, writeOK)
    \/ WsClose(c)

SpecWs == InitWs /\ [][NextWs]_vars

(***************************************************************************)
(* Specification of one ScrapeNeighborhood call.  Each step of the loop is *)
(* one scrapePage call together with the merge and the loop decision that  *)
(* follow it; the site's answer is the input of the step.                  *)
(***************************************************************************)
Statuses == {"sold", "for_sale"}

Init == idCalls = <<>> /\ CrawlIdle /\ DetailIdle /\ OthersIdle

\* ScrapeNeighborhood("Honolulu", "HI", "manoa", status), lines 117-126
CallScrapeNeighborhood(status, urlOK) ==
  /\ pc = "idle" /\ dpc = "idle"
  /\ pc' = "loop"
  /\ args' = [city |-> "honolulu", state |-> "hi", neighborhood |-> "manoa",
              status |-> status, urlOK |-> urlOK]
  /\ page' = 1
  /\ propertyMap' = EmptyMap
  /\ UNCHANGED <<idCalls, otherVars, fetches, yields, ret, detailVars>>

\* the pages the site can answer with: any page when ScrapeNeighborhood is
\* called directly, the pages of DetailSoldPages inside a detail call
SitePages == IF dpc = "idle" THEN Leads \X PadCounts ELSE DetailSoldPages

\* the failures the fetch of the current page can end in
FailuresNow == IF args.urlOK THEN FailedResponses ELSE {RequestFailure}

Fetched(kind, anchors, out) ==
  Append(fetches, [page |-> page, url |-> pageURL(args, page), kind |-> kind,
                   anchors |-> anchors, n |-> Len(out.properties)])

\* lines 134-137: scrapePage fails and the call returns
ScrapePageFails ==
  /\ pc = "loop" /\ loopCond(page)
  /\ \E r \in FailuresNow :
       LET out == scrapePage(r)
       IN  /\ out.err # NoErr
           /\ fetches' = Fetched(r.kind, 0, out)
           /\ ret' = crawlFailure(propertyMap, page, out.err)
           /\ pc' = "done"
           /\ UNCHANGED <<idCalls, otherVars, args, page, propertyMap, yields, detailVars>>

\* lines 134-152, no break: the page is merged and the loop goes on
ScrapePageContinues ==
  /\ pc = "loop" /\ loopCond(page) /\ args.urlOK
  /\ \E l \in Leads, n \in PadCounts :
       LET out == Scraped[<<l, n, page>>]
       IN  /\ <<l, n>> \in SitePages
           /\ out.err = NoErr
           /\ ~lastPageSignal(Len(out.properties))
           /\ loopCond(page + 1)
           /\ fetches' = Fetched("ok", Len(l) + n, out)
           /\ yields' = Append(yields, out.properties)
           /\ propertyMap' = mergePage(propertyMap, out.properties)
           /\ page' = page + 1
           /\ UNCHANGED <<idCalls, otherVars, args, pc, ret, detailVars>>

\* lines 134-160: the page is merged, the loop ends (break, or the page count
\* is used up) and the map's values are returned
ScrapePageEnds ==
  /\ pc = "loop" /\ loopCond(page) /\ args.urlOK
  /\ \E l \in Leads, n \in PadCounts :
       LET out == Scraped[<<l, n, page>>]
       IN  /\ <<l, n>> \in SitePages
           /\ out.err = NoErr
           /\ lastPageSignal(Len(out.properties)) \/ ~loopCond(page + 1)
           /\ fetches' = Fetched("ok", Len(l) + n, out)
           /\ yields' = Append(yields, out.properties)
           /\ propertyMap' = mergePage(propertyMap, out.properties)
           /\ page' = IF lastPageSignal(Len(out.properties)) THEN page
                      ELSE page + 1
           /\ ret' = [properties |-> mapValues(propertyMap'), err |-> NoErr]
           /\ pc' = "done"
           /\ UNCHANGED <<idCalls, otherVars, args, detailVars>>

Next ==
  \/ \E st \in Statuses, ok \in BOOLEAN : CallScrapeNeighborhood(st, ok)
  \/ ScrapePageFails
  \/ ScrapePageContinues
  \/ ScrapePageEnds

Spec == Init /\ [][Next]_vars

\* the lower-cased, alphanumeric-only concatenation address+city of a call
Normalized(call) == StripNonAlnum(ToLower(call.address \o call.city))

AlnumLower == LowerSet \cup DigitSet

(***************************************************************************)
(* Specification of one call of a detail-page or card extractor.  A        *)
(* ScrapePropertyDetail call on a Honolulu listing runs ScrapeManoa("sold")*)
(* first: the steps of that crawl are the steps of ScrapeNeighborhood.     *)
(***************************************************************************)
\* extractPropertyFromCard(s), lines 469-533
CallExtractCard(card) ==
  /\ dpc = "idle" /\ pc = "idle"
  /\ dpc' = "done"
  /\ dsite' = "card"
  /\ dret' = [nil |-> FALSE, property |-> extractPropertyFromCard(card),
              err |-> NoErr]
  /\ UNCHANGED <<idCalls, otherVars, crawlVars, durl, dprop, dtrace, dfetch, dpage>>

\* line 617: strings.Contains(url, "redfin.com")
isRedfin(url) == Contains(url, RedfinHost)

\* line 669: the city and state of the URL are the known region
knownRegion(property) ==
  /\ ToLower(property.City) = ToLower(Honolulu)
  /\ ToLower(property.State) = ToLower(HI)

\* ScrapePropertyDetail(url) on a redfin.com URL: lines 617-619 and 801-838
CallDetailRedfin(url) ==
  /\ dpc = "idle" /\ pc = "idle"
  /\ isRedfin(url)
  /\ dsite' = "redfin"
  /\ durl' = url
  /\ dprop' = redfinURLIdentity(url)
  /\ dtrace' = <<"URL_PARSED">>
  /\ dpc' = "fetch"
  /\ UNCHANGED <<idCalls, otherVars, crawlVars, dfetch, dpage, dret>>

\* ScrapePropertyDetail(url) on a URL of the known region: lines 623-673, up
\* to the ScrapeManoa("sold") call
CallDetailKnownRegion(url) ==
  /\ dpc = "idle" /\ pc = "idle"
  /\ ~isRedfin(url)
  /\ knownRegion(homesURLIdentity(url))
  /\ dsite' = "homes"
  /\ durl' = url
  /\ dprop' = homesURLIdentity(url)
  /\ dtrace' = <<"URL_PARSED">>
  /\ dpc' = "sold_crawl"
  /\ pc' = "loop"
  /\ args' = [city |-> "honolulu", state |-> "hi", neighborhood |-> "manoa",
              status |-> "sold", urlOK |-> TRUE]
  /\ page' = 1
  /\ propertyMap' = EmptyMap
  /\ UNCHANGED <<idCalls, otherVars, fetches, yields, ret, dfetch, dpage, dret>>

\* ScrapePropertyDetail(url) on any other URL: lines 623-669
CallDetailOther(url) ==
  /\ dpc = "idle" /\ pc = "idle"
  /\ ~isRedfin(url)
  /\ ~knownRegion(homesURLIdentity(url))
  /\ dsite' = "homes"
  /\ durl' = url
  /\ dprop' = homesURLIdentity(url)
  /\ dtrace' = <<"URL_PARSED">>
  /\ dpc' = "fetch"
  /\ UNCHANGED <<idCalls, otherVars, crawlVars, dfetch, dpage, dret>>

\* mutant: every sold listing matches
soldMatch_Always(soldProp, property) == TRUE

\* line 677: the sold listing's address contains the URL's address
soldMatch(soldProp, property) ==
  Contains(ToLower(soldProp.Address), ToLower(property.Address))

\* lines 674-681: the first sold listing that matches is returned; the order
\* of the sold listings is the unspecified order of the crawl's map
DetailCacheHit ==
  /\ dpc = "sold_crawl" /\ pc = "done"
  /\ ret.err = NoErr
  /\ \E soldProp \in BagToSet(ret.properties) :
       /\ soldMatch(soldProp, dprop)
       /\ dret' = [nil |-> FALSE, property |-> soldProp, err |-> NoErr]
  /\ dtrace' = dtrace \o <<"CACHE_HIT", "DONE">>
  /\ dpc' = "done"
  /\ UNCHANGED <<idCalls, otherVars, crawlVars, dsite, durl, dprop, dfetch, dpage>>

\* lines 673-685: the crawl failed or no sold listing matches
DetailCacheMiss ==
  /\ dpc = "sold_crawl" /\ pc = "done"
  /\ \/ ret.err # NoErr
     \/ \A soldProp \in BagToSet(ret.properties) : ~soldMatch(soldProp, dprop)
  /\ dpc' = "fetch"
  /\ UNCHANGED <<idCalls, otherVars, crawlVars, dsite, durl, dprop, dtrace, dfetch, dpage, dret>>

\* the failures the direct fetch of the url can end in
DetailFailures == IF urlValid(durl) THEN FailedResponses ELSE {RequestFailure}

\* the failures that end in the record built from the URL: lines 695-709 for
\* homes.com, lines 841-873 for redfin.com
degrades(site, kind) ==
  IF site = "redfin" THEN kind \in {"request", "transport", "status", "parse"}
  ELSE kind \in {"transport", "status"}

\* mutant: the record built from the URL is returned as it is
degradedRecord_NoID(property) == property

\* lines 699-700, 707-708, 844-845, 857-858, 864-865, 871-872: the record
\* built from the URL gets its identifier and is returned
degradedRecord(property) ==
  [property EXCEPT !.ID = generatePropertyID(property.Address, property.City)]

DetailFetchDegraded ==
  /\ dpc = "fetch"
  /\ \E r \in DetailFailures :
       /\ degrades(dsite, r.kind)
       /\ dfetch' = Append(dfetch, r.kind)
  /\ dprop' = degradedRecord(dprop)
  /\ dret' = [nil |-> FALSE, property |-> dprop', err |-> NoErr]
  /\ dtrace' = dtrace \o <<"FETCH_ATTEMPTED", "FETCH_FAILED", "DONE">>
  /\ dpc' = "done"
  /\ UNCHANGED <<idCalls, otherVars, crawlVars, dsite, durl, dpage>>

\* lines 686-689 and 711-714: homes.com, the request cannot be built or the
\* body cannot be parsed: return nil, err
DetailFetchError ==
  /\ dpc = "fetch"
  /\ \E r \in DetailFailures :
       /\ ~degrades(dsite, r.kind)
       /\ dfetch' = Append(dfetch, r.kind)
       /\ dret' = [nil |-> TRUE, property |-> ZeroProperty,
                   err |-> [kind |-> r.kind, code |-> r.code, page |-> 0]]
  /\ dtrace' = dtrace \o <<"FETCH_ATTEMPTED", "FETCH_FAILED", "DONE">>
  /\ dpc' = "done"
  /\ UNCHANGED <<idCalls, otherVars, crawlVars, dsite, durl, dprop, dpage>>

\* lines 716-797: the homes.com page is fetched and merged
DetailHomesMerged ==
  /\ dpc = "fetch" /\ dsite = "homes" /\ urlValid(durl)
  /\ \E pg \in HomesDetailPages :
       dprop' = homesDetailMerge(dprop, pg) /\ dpage' = Append(dpage, pg)
  /\ dfetch' = Append(dfetch, "ok")
  /\ dret' = [nil |-> FALSE, property |-> dprop', err |-> NoErr]
  /\ dtrace' = dtrace \o <<"FETCH_ATTEMPTED", "PARSED", "FIELDS_MERGED", "DONE">>
  /\ dpc' = "done"
  /\ UNCHANGED <<idCalls, otherVars, crawlVars, dsite, durl>>

\* lines 875-1075: the redfin.com page is fetched and merged
DetailRedfinMerged ==
  /\ dpc = "fetch" /\ dsite = "redfin" /\ urlValid(durl)
  /\ \E pg \in RedfinDetailPages :
       dprop' = redfinDetailMerge(dprop, pg) /\ dpage' = Append(dpage, pg)
  /\ dfetch' = Append(dfetch, "ok")
  /\ dret' = [nil |-> FALSE, property |-> dprop', err |-> NoErr]
  /\ dtrace' = dtrace \o <<"FETCH_ATTEMPTED", "PARSED", "FIELDS_MERGED", "DONE">>
  /\ dpc' = "done"
  /\ UNCHANGED <<idCalls, otherVars, crawlVars, dsite, durl>>

InitDetail == idCalls = <<>> /\ CrawlIdle /\ DetailIdle /\ OthersIdle

NextDetail ==
  \/ \E card \in Cards : CallExtractCard(card)
  \/ \E url \in DetailURLs : CallDetailRedfin(url)
  \/ \E url \in DetailURLs : CallDetailKnownRegion(url)
  \/ \E url \in DetailURLs : CallDetailOther(url)
  \/ ScrapePageFails
  \/ ScrapePageContinues
  \/ ScrapePageEnds
  \/ DetailCacheHit
  \/ DetailCacheMiss
  \/ DetailFetchDegraded
  \/ DetailFetchError
  \/ DetailHomesMerged
  \/ DetailRedfinMerged

SpecDetail == InitDetail /\ [][NextDetail]_vars

(***************************************************************************)
(* Properties of the identifier synthesizer (SpecID).                      *)
(***************************************************************************)
\* C6: generatePropertyID is a function of the normalized address+city: any
\* two calls whose lower-cased, alphanumeric-only concatenation address+city
\* is equal (in particular two calls with the same address and city) return
\* the same identifier.
C6_SameNormalizedSameID ==
  \A i, j \in DOMAIN idCalls :
    Normalized(idCalls[i]) = Normalized(idCalls[j])
      => idCalls[i].id = idCalls[j].id

\* two calls with different raw inputs but the same normalized text
C6_Witness ==
  \E i, j \in DOMAIN idCalls :
    /\ idCalls[i].address # idCalls[j].address
    /\ Normalized(idCalls[i]) = Normalized(idCalls[j])
    /\ Normalized(idCalls[i]) # <<>>
    /\ idCalls[i].id = idCalls[j].id

\* C7: generatePropertyID never returns the empty string, and for an empty
\* cleaned address+city it returns the prefix followed by the sentinel token.
C7_NeverEmptySentinelOnEmpty ==
  \A i \in DOMAIN idCalls :
    /\ idCalls[i].id # <<>>
    /\ Normalized(idCalls[i]) = <<>> => idCalls[i].id = PropPrefix \o Unknown

\* id("", "") and a call whose non-empty input is cleaned away entirely
C7_Witness ==
  /\ \E i \in DOMAIN idCalls :
       /\ idCalls[i].address = <<>> /\ idCalls[i].city = <<>>
       /\ idCalls[i].id = PropPrefix \o Unknown
  /\ \E i \in DOMAIN idCalls :
       /\ idCalls[i].address # <<>>
       /\ Normalized(idCalls[i]) = <<>>

\* C8: the identifier returned for an empty normalized input is never the
\* identifier returned for an input whose normalized address+city is
\* non-empty.
C8_SentinelNeverCollides ==
  \A i, j \in DOMAIN idCalls :
    (Normalized(idCalls[i]) = <<>> /\ Normalized(idCalls[j]) # <<>>)
      => idCalls[i].id # idCalls[j].id

\* C9: every identifier is 'prop_' followed by 1..25 characters from a-z and
\* 0-9; the characters are the cleaned string, cut to its first 25 characters
\* when it is longer.
C9_IDShape ==
  \A i \in DOMAIN idCalls :
    LET id   == idCalls[i].id
        body == SubSeq(id, Len(PropPrefix) + 1, Len(id))
        norm == Normalized(idCalls[i])
    IN  /\ Len(id) > Len(PropPrefix)
        /\ SubSeq(id, 1, Len(PropPrefix)) = PropPrefix
        /\ Len(body) \in 1..PropIDMaxLen
        /\ \A k \in DOMAIN body : body[k] \in AlnumLower
        /\ Len(norm) > PropIDMaxLen => body = SubSeq(norm, 1, PropIDMaxLen)
        /\ Len(norm) \in 1..PropIDMaxLen => body = norm

\* a call whose cleaned string is longer than 25 characters and was cut
C9_Witness ==
  \E i \in DOMAIN idCalls :
    /\ Len(Normalized(idCalls[i])) > PropIDMaxLen
    /\ Len(idCalls[i].id) = Len(PropPrefix) + PropIDMaxLen

(***************************************************************************)
(* Properties of the pagination and dedup controller (Spec).               *)
(***************************************************************************)
\* C1: the fetches of one ScrapeNeighborhood call are the pages 1, 2, 3 in
\* this order, each at most once and never more than 3; while the call is
\* still in its loop fewer than 3 fetches have been made, so the loop ends
\* after the third fetch at the latest, whatever the pages yield.
C1_PagesInOrderAtMostThree ==
  /\ Len(fetches) <= MaxPages
  /\ \A i \in DOMAIN fetches :
       /\ fetches[i].page = i
       /\ fetches[i].url.suffix = (IF i = 1 THEN 0 ELSE i)
  /\ pc = "loop" => (Len(fetches) < MaxPages /\ page = Len(fetches) + 1)
  /\ Len(fetches) = MaxPages => pc = "done"

\* a call that returned after three full pages
C1_Witness ==
  /\ pc = "done"
  /\ Len(fetches) = MaxPages
  /\ \A i \in DOMAIN fetches : fetches[i].n >= PageFull

\* C2: page k+1 is fetched only if page k was scraped without error and
\* yielded at least 20 records, so no page follows a page with fewer than 20
\* records; a call that returns records has fetched up to a page with fewer
\* than 20 records or up to page 3 (yields of 20, 20 and 5 records: exactly 3
\* pages).
C2_NextPageOnlyAfterFullPage ==
  /\ \A i \in DOMAIN fetches :
       i > 1 => (fetches[i - 1].kind = "ok" /\ fetches[i - 1].n >= PageFull)
  /\ \A i \in DOMAIN fetches :
       fetches[i].n < PageFull => (i = Len(fetches) /\ pc = "done")
  /\ (pc = "done" /\ ret.err = NoErr) =>
       (fetches[Len(fetches)].n < PageFull \/ Len(fetches) = MaxPages)

\* pages of 20, 20 and ShortPage (5) records: three fetches, then the return
C2_Witness ==
  /\ pc = "done"
  /\ ret.err = NoErr
  /\ [i \in DOMAIN fetches |-> fetches[i].n] = <<PageFull, PageFull, ShortPage>>

\* C3: a failed fetch or parse of page p ends the call: it is the last fetch,
\* the call has returned, the error carries the page number p and the cause,
\* and no record is returned.
C3_FailureAbortsWithPageNumber ==
  \A i \in DOMAIN fetches :
    fetches[i].kind # "ok" =>
      /\ i = Len(fetches)
      /\ pc = "done"
      /\ ret.err.kind = fetches[i].kind
      /\ ret.err.page = fetches[i].page
      /\ ret.properties = EmptyBag

\* a failure on a later page, with records of the earlier pages in the map
C3_Witness ==
  /\ pc = "done"
  /\ ret.err.page > 1
  /\ DOMAIN propertyMap # {}
  /\ ret.properties = EmptyBag

RECURSIVE Flatten(_)
Flatten(ss) == IF ss = <<>> THEN <<>> ELSE Head(ss) \o Flatten(Tail(ss))

\* the identifiers among the records of a sequence
IDsOf(props) == {props[i].ID : i \in DOMAIN props}

\* the last record of a sequence that carries the identifier
LastWithID(props, id) ==
  props[SetMax({i \in DOMAIN props : props[i].ID = id})]

\* C4: a call that returns records returns exactly one record per distinct
\* identifier scraped, and for each identifier the record of the last page
\* on which the identifier appeared (the last one on that page).
C4_OnePerIDLastWins ==
  (pc = "done" /\ ret.err = NoErr) =>
    LET seen == IDsOf(Flatten(yields))
    IN  /\ BagCardinality(ret.properties) = Cardinality(seen)
        /\ \A id \in seen :
             LET lastPage == SetMax({p \in DOMAIN yields : id \in IDsOf(yields[p])})
                 survivor == LastWithID(yields[lastPage], id)
             IN  /\ CopiesIn(survivor, ret.properties) = 1
                 /\ \A r \in BagToSet(ret.properties) :
                      r.ID = id => r = survivor

\* an identifier scraped on two pages in different versions, and more records
\* scraped than returned
C4_Witness ==
  /\ pc = "done" /\ ret.err = NoErr
  /\ Len(yields) >= 2
  /\ \E i \in DOMAIN yields[1], j \in DOMAIN yields[2] :
       /\ yields[1][i].ID = yields[2][j].ID
       /\ yields[1][i] # yields[2][j]
  /\ BagCardinality(ret.properties) < Len(Flatten(yields))

\* C5: no record with an empty address or a zero price is among the records
\* scrapePage yields or ScrapeNeighborhood returns.
C5_NoAddressNoPriceNoRecord ==
  /\ \A p \in DOMAIN yields : \A i \in DOMAIN yields[p] :
       yields[p][i].Address # <<>> /\ yields[p][i].Price # 0
  /\ \A r \in BagToSet(ret.properties) : r.Address # <<>> /\ r.Price # 0

\* a page on which an anchor was found but not admitted, in a call that
\* returned records
C5_Witness ==
  /\ pc = "done" /\ ret.err = NoErr
  /\ ret.properties # EmptyBag
  /\ \E i \in DOMAIN fetches :
       fetches[i].kind = "ok" /\ fetches[i].anchors > fetches[i].n

(***************************************************************************)
(* Properties of the extractors' records (SpecDetail).                     *)
(***************************************************************************)
\* the records the extractors have produced: the pageProperties of
\* scrapePage, the slice ScrapeNeighborhood returned, and the record a detail
\* or card call returned
Produced ==
  UNION {{yields[p][i] : i \in DOMAIN yields[p]} : p \in DOMAIN yields}
  \cup BagToSet(ret.properties)
  \cup (IF dret.nil THEN {} ELSE {dret.property})

\* C10: in every record an extractor produced, the price per area is
\* price / area (integer division) when price > 0 and area > 0, and 0 (unset)
\* when either is not strictly positive.
C10_PricePerAreaOnlyWhenBothPositive ==
  \A r \in Produced :
    r.PricePerSqFt = IF r.Price > 0 /\ r.SquareFeet > 0
                       THEN r.Price \div r.SquareFeet ELSE 0

\* a detail call whose fetched page gave price 1,000,000 and area 2,000, after
\* a sold crawl that yielded a record with a price and no area
C10_Witness ==
  /\ dpc = "done" /\ ~dret.nil
  /\ dfetch = <<"ok">>
  /\ dret.property.Price = 1000000
  /\ dret.property.SquareFeet = 2000
  /\ dret.property.PricePerSqFt = 500
  /\ \E r \in Produced :
       r.Price > 0 /\ r.SquareFeet = 0 /\ r.PricePerSqFt = 0

(***************************************************************************)
(* Properties of the field parsers (SpecParse).                            *)
(***************************************************************************)
\* decimal digits of a natural number (strconv.Itoa)
RECURSIVE FormatInt(_)
FormatInt(n) ==
  IF n < 10 THEN <<DigitChars[n + 1]>>
  ELSE FormatInt(n \div 10) \o <<DigitChars[(n % 10) + 1]>>

\* the clean rendering of a parsed float: sign, digits, and a decimal point
\* when there are decimals
formatFloat(v) ==
  LET padded == Repeat(<<"0">>, v.e + 1 - Len(v.digits)) \o v.digits
      whole  == SubSeq(padded, 1, Len(padded) - v.e)
      frac   == SubSeq(padded, Len(padded) - v.e + 1, Len(padded))
  IN  (IF v.neg THEN <<"-">> ELSE <<>>)
      \o whole \o (IF v.e > 0 THEN <<".">> \o frac ELSE <<>>)

formatValue(fn, v) ==
  IF fn \in {"parsePrice", "parseInt"} THEN FormatInt(v) ELSE formatFloat(v)

\* a fragment with its noise stripped: currency symbol, thousands separators,
\* blanks and units removed
Stripped(s) == SelectSeq(s, LAMBDA c : c \in DigitSet \cup {".", "-"})

\* C11: parsePrice returns a non-negative integer for every fragment, also
\* for one without digits, with only separators, or with a digit run beyond
\* the integer range; parsePrice("") = 0.
C11_ParsePriceNonNegativeTotal ==
  \A i \in DOMAIN parseCalls :
    parseCalls[i].fn = "parsePrice"
      => /\ parseCalls[i].out \in 0..IntMax
         /\ (parseIn = <<>> => parseCalls[i].out = 0)

\* parsePrice applied to a digit run beyond the integer range
C11_Witness ==
  \E i \in DOMAIN parseCalls :
    /\ parseCalls[i].fn = "parsePrice"
    /\ Len(Stripped(parseIn)) > 10
    /\ parseCalls[i].out = IntMax

\* C12: each of the four parsers returns, for the clean rendering of a value
\* it returned, that same value, and returns for a noisy fragment the value
\* it returns for the fragment's clean equivalent.
C12_ParsersIdempotent ==
  \A i \in DOMAIN parseCalls :
    LET fn == parseCalls[i].fn
        v  == parseCalls[i].out
    IN  /\ applyParser(fn, formatValue(fn, v)) = v
        /\ applyParser(fn, Stripped(parseIn)) = v

(***************************************************************************)
(* Properties of the statistics extractors (SpecStats).                    *)
(***************************************************************************)
\* C13: the text patterns are consulted exactly when the median sale price is
\* still 0 after the table rows; when the rows set it, the returned record is
\* what the rows produced, whatever the text patterns would capture.
C13_FallbackOnlyWhenMedianUnset ==
  (spc = "done" /\ ~sret.nil) =>
    /\ sret.table = structuredStats(ZeroStats(statsArea(sfn)), sresp[1].doc.rows)
    /\ sret.fallback <=> (sret.table.MedianSalePrice = 0)
    /\ sret.table.MedianSalePrice # 0 => sret.stats = sret.table
    /\ sret.fallback => sret.stats = textStats(sfn, sret.table, sresp[1].doc.text)

\* the rows gave the median, and the page text holds a capture for every
\* pattern, with another median
C13_Witness ==
  /\ spc = "done" /\ ~sret.nil
  /\ sret.table.MedianSalePrice = 1250000
  /\ sresp[1].doc.text.median # <<>>
  /\ parsePrice(sresp[1].doc.text.median) # 1250000
  /\ sresp[1].doc.text.sales # <<>>
  /\ sret.stats.MedianSalePrice = 1250000
  /\ sret.stats.SalesLast12Months = 0

\* C14: a transport failure or a non-2xx response makes the pagination
\* controller and the statistics extractors return a failure (with the status
\* code) and no record; only the detail-page extractor may return a record.
C14_OnlyDetailDegrades ==
  /\ \A i \in DOMAIN fetches :
       fetches[i].kind \in {"transport", "status"} =>
         /\ pc = "done"
         /\ ret.err.kind = fetches[i].kind
         /\ fetches[i].kind = "status" => ret.err.code \in StatusCodes
         /\ ret.properties = EmptyBag
  /\ \A i \in DOMAIN sresp :
       sresp[i].kind \in {"transport", "status"} =>
         /\ sret.nil
         /\ sret.err.kind = sresp[i].kind
         /\ sret.err.code = sresp[i].code

(***************************************************************************)
(* Properties of the detail-page extractor (SpecDetail).                   *)
(***************************************************************************)
\* the outcome of the direct fetch of the listing URL, "" before it
lastFetch == IF dfetch = <<>> THEN "" ELSE dfetch[Len(dfetch)]

\* C15: for a syntactically valid listing URL a detail call returns a record
\* and no error, whether the fetch ends in a transport failure, a non-success
\* status, or a body that cannot be parsed.
C15_ValidURLAlwaysRecord ==
  (dpc = "done" /\ dsite \in {"homes", "redfin"} /\ urlValid(durl)) =>
    (~dret.nil /\ dret.err = NoErr)

\* the identity fields of a record blanked
withoutIdentity(property) ==
  [property EXCEPT !.ID = <<>>, !.Address = <<>>, !.City = <<>>,
                   !.State = <<>>, !.ZipCode = <<>>]

\* C16: after a transport failure or a non-200 status the returned record is
\* the identity reconstructed from the URL, with no field from a page, and
\* with the non-empty identifier generated from that address and city; the
\* redfin.com example gives "2819 Poelua St", "Honolulu", "HI", "96822".
C16_FailedFetchReturnsURLIdentity ==
  (dpc = "done" /\ lastFetch \in {"transport", "status"}) =>
    LET identity == IF dsite = "redfin" THEN redfinURLIdentity(durl)
                    ELSE homesURLIdentity(durl)
        property == dret.property
    IN  /\ ~dret.nil /\ dret.err = NoErr
        /\ property.Address = identity.Address
        /\ property.City = identity.City
        /\ property.State = identity.State
        /\ property.ZipCode = identity.ZipCode
        /\ dsite = "homes" => property.ZipCode = <<>>
        /\ withoutIdentity(property) = [ZeroProperty EXCEPT !.Status = "sold"]
        /\ property.ID # <<>>
        /\ property.ID = generatePropertyID(identity.Address, identity.City)
        /\ durl = RedfinExampleURL =>
             /\ property.Address = <<"2","8","1","9"," ","P","o","e","l","u","a"," ","S","t">>
             /\ property.City = Honolulu
             /\ property.State = HI
             /\ property.ZipCode = Zip96822

\* the redfin.com example answered with a non-200 status
C16_Witness ==
  /\ dpc = "done" /\ lastFetch = "status"
  /\ durl = RedfinExampleURL
  /\ dret.property.ZipCode = Zip96822
  /\ dret.property.ID # <<>>

\* the three paths of a detail call
PathCacheHit == <<"URL_PARSED", "CACHE_HIT", "DONE">>

PathPartial == <<"URL_PARSED", "FETCH_ATTEMPTED", "FETCH_FAILED", "DONE">>

PathFull == <<"URL_PARSED", "FETCH_ATTEMPTED", "PARSED", "FIELDS_MERGED", "DONE">>

\* C17: a detail call on a valid URL fetches the URL at most once and ends on
\* one of three paths: cache hit (no fetch of the URL, the sold record),
\* failed fetch (the partial record built from the URL, nothing merged), or
\* parsed and merged (the full record).
C17_DetailStateMachine ==
  (dsite \in {"homes", "redfin"} /\ urlValid(durl)) =>
    /\ Len(dfetch) <= 1
    /\ dpc # "done" => dtrace = <<"URL_PARSED">> /\ dfetch = <<>>
    /\ dpc = "done" =>
         \/ /\ dtrace = PathCacheHit
            /\ dfetch = <<>>
            /\ ~dret.nil /\ dret.property \in BagToSet(ret.properties)
         \/ /\ dtrace = PathPartial
            /\ lastFetch \in {"transport", "status", "parse"}
            /\ ~dret.nil
            /\ dret.property =
                 degradedRecord(IF dsite = "redfin" THEN redfinURLIdentity(durl)
                                ELSE homesURLIdentity(durl))
         \/ /\ dtrace = PathFull
            /\ dfetch = <<"ok">>
            /\ ~dret.nil

\* C18: on a parsed redfin.com page the category is condo when the text holds
\* condominium or condo; townhouse when it holds townhouse or townhome and no
\* condo keyword; apartment when it holds apartment and none of the former;
\* house when it holds no keyword.
C18_CategoryByKeywordPriority ==
  (dpc = "done" /\ dsite = "redfin" /\ dfetch = <<"ok">>) =>
    LET lowerText == ToLower(dpage[1].text)
        condo     == Contains(lowerText, KwCondominium) \/ Contains(lowerText, KwCondo)
        townhouse == Contains(lowerText, KwTownhouse) \/ Contains(lowerText, KwTownhome)
        apartment == Contains(lowerText, KwApartment)
        type      == dret.property.PropertyType
    IN  /\ type \in {"condo", "townhouse", "apartment", "house"}
        /\ type = "condo" <=> condo
        /\ type = "townhouse" <=> (~condo /\ townhouse)
        /\ type = "apartment" <=> (~condo /\ ~townhouse /\ apartment)
        /\ type = "house" <=> (~condo /\ ~townhouse /\ ~apartment)

\* a parsed redfin.com page that holds all three kinds of keyword
C18_Witness ==
  /\ dpc = "done" /\ dsite = "redfin" /\ dfetch = <<"ok">>
  /\ Contains(ToLower(dpage[1].text), KwCondominium)
  /\ Contains(ToLower(dpage[1].text), KwTownhouse)
  /\ Contains(ToLower(dpage[1].text), KwApartment)
  /\ dret.property.PropertyType = "condo"

(***************************************************************************)
(* Properties of concurrent calls (SpecConc).                              *)
(***************************************************************************)
\* what ScrapeNeighborhood returns to call c when it runs alone and the site
\* gives it the answers of cresps[c]: nil and the error when the last answer
\* is a failure (line 136), else the values of the map built from its own
\* pages (lines 154-160)
aloneResult(c) ==
  LET last == cresps[c][Len(cresps[c])]
  IN  IF last.kind # "ok"
        THEN crawlFailure(calone[c], Len(cresps[c]), scrapePage(last).err)
      ELSE [properties |-> mapValues(calone[c]), err |-> NoErr]

\* C19: under every interleaving of two concurrent calls each call works on
\* the map it builds when run alone, and returns what it returns when run
\* alone on the answers it got.
C19_ConcurrentCallsIndependent ==
  \A c \in Calls :
    /\ cpc[c] = "loop" => cmaps[ownMap(c)] = calone[c]
    /\ cpc[c] = "done" => cret[c] = aloneResult(c)

\* both calls have returned records, different ones, and call 2 ran its loop
\* between two iterations of call 1
C19_Witness ==
  /\ \A c \in Calls : cpc[c] = "done" /\ cret[c].err = NoErr
  /\ cret[1].properties # EmptyBag /\ cret[2].properties # EmptyBag
  /\ cret[1].properties # cret[2].properties
  /\ \E i, j, k \in DOMAIN corder :
       i < j /\ j < k /\ corder[i] = 1 /\ corder[j] = 2 /\ corder[k] = 1

(***************************************************************************)
(* Properties of the WebSocket message handling (SpecWs).                  *)
(***************************************************************************)
\* C20: a tools/list, tools/call or resources/list message handled on a
\* connection that is not initialized gets -32002 and does not reach the
\* registry; a connection on which initialize succeeded is initialized as long
\* as it is open; an initialize with invalid parameters gets -32602 and
\* leaves the connection as it was.
C20_NotInitializedRejected ==
  /\ (wsLast.message.method \in {"tools/list", "tools/call", "resources/list"}
        /\ ~wsLast.wasInit)
       => (wsLast.code = ErrNotInitialized /\ ~wsLast.reached)
  /\ \A c \in Conns : (wsEverInit[c] /\ wsState[c] = "open") => wsInit[c]
  /\ \A c \in Conns : wsInit[c] => wsEverInit[c]
  /\ (wsLast.message.method = "initialize" /\ ~wsLast.message.paramsOK)
       => /\ wsLast.code = ErrInvalidParams
          /\ wsInit[wsLast.conn] = wsLast.wasInit

\* a tools/call refused on one open connection while the other connection is
\* initialized
C20_Witness ==
  /\ wsLast.message.method = "tools/call" /\ ~wsLast.wasInit
  /\ wsLast.code = ErrNotInitialized /\ wsLast.sent
  /\ wsState[wsLast.conn] = "open"
  /\ \E c \in Conns : c # wsLast.conn /\ wsInit[c] /\ wsState[c] = "open"

(***************************************************************************)
(* Properties of the URL grammars (SpecDetail).                            *)
(***************************************************************************)
\* a path segment made of exactly two upper-case letters
IsStateSegment(seg) == Len(seg) = 2 /\ seg[1] \in UpperSet /\ seg[2] \in UpperSet

\* hyphens turned into spaces and each word title-cased
SpacedTitle(s) == Title([i \in DOMAIN s |-> IF s[i] = "-" THEN " " ELSE s[i]])

\* C21: for a redfin.com URL the first path segment made of exactly two
\* upper-case letters is the state, the next segment is the city, and the
\* segment after that is split on its last hyphen into the address
\* (hyphens to spaces, title-cased) and the postal code.
C21_RedfinURLGrammar ==
  (dsite = "redfin" /\ dpc = "fetch") =>
    LET segs   == Split(durl, "/")
        states == {i \in DOMAIN segs : IsStateSegment(segs[i])}
    IN  states # {} =>
          LET i == SetMin(states)
          IN  /\ dprop.State = segs[i]
              /\ i + 1 <= Len(segs) => dprop.City = segs[i + 1]
              /\ i + 2 <= Len(segs) =>
                   LET seg     == segs[i + 2]
                       hyphens == {k \in DOMAIN seg : seg[k] = "-"}
                   IN  (hyphens # {} /\ SetMax(hyphens) > 1) =>
                         /\ dprop.Address =
                              SpacedTitle(SubSeq(seg, 1, SetMax(hyphens) - 1))
                         /\ dprop.ZipCode =
                              SubSeq(seg, SetMax(hyphens) + 1, Len(seg))

\* C22: for a homes.com URL whose slug ends in a two-letter state token, the
\* state is that token, the city is the token before it, and the address is
\* made of all tokens before the city (2819-poelua-st-honolulu-hi gives
\* "2819 Poelua St", "Honolulu", "HI").
C22_HomesSlugGrammar ==
  (dsite = "homes" /\ dpc \in {"sold_crawl", "fetch"}) =>
    LET segs == Split(durl, "/")
    IN  Len(segs) >= 5 =>
          LET tokens == Split(segs[5], "-")
              n      == Len(tokens)
          IN  (n >= 3 /\ Len(tokens[n]) = 2
                 /\ \A k \in 1..2 : tokens[n][k] \in Letters) =>
                /\ dprop.State = ToUpper(tokens[n])
                /\ dprop.City = Title(tokens[n - 1])
                /\ dprop.Address =
                     SpacedTitle(Join(SelectSeq(SubSeq(tokens, 1, n - 2),
                                               LAMBDA a : a # <<>>), <<"-">>))

(***************************************************************************)
(* Properties of the sold-listing lookup (SpecDetail).                     *)
(***************************************************************************)
\* the call returned a listing of the sold crawl
CacheHit == dpc = "done" /\ dtrace = <<"URL_PARSED", "CACHE_HIT", "DONE">>

\* the sold crawl of a homes.com call is over and it failed or holds no
\* listing whose address contains the URL's address in any letter case
SoldLookupMissed ==
  /\ dsite = "homes" /\ pc = "done" /\ dpc # "idle"
  /\ \/ ret.err # NoErr
     \/ \A soldProp \in BagToSet(ret.properties) :
          ~Contains(ToLower(soldProp.Address), ToLower(dprop.Address))

\* C23: a sold listing is returned in place of a direct fetch only when the
\* URL's city and state are Honolulu, HI and the listing's address contains
\* the URL's address, case-insensitively; when the sold crawl fails or holds
\* no such listing, the call goes on to the direct fetch.
C23_CacheHitOnlyOnMatchElseFetch ==
  /\ CacheHit =>
       /\ dsite = "homes"
       /\ ToLower(dprop.City) = <<"h","o","n","o","l","u","l","u">>
       /\ ToLower(dprop.State) = <<"h","i">>
       /\ ret.err = NoErr
       /\ dret.property \in BagToSet(ret.properties)
       /\ Contains(ToLower(dret.property.Address), ToLower(dprop.Address))
       /\ dfetch = <<>>
  /\ SoldLookupMissed =>
       /\ dpc \in {"sold_crawl", "fetch", "done"}
       /\ dpc = "done" => (~CacheHit /\ Len(dfetch) = 1)

\* a sold listing returned for a URL address that is a proper part of the
\* listing's address
C23_Witness ==
  /\ CacheHit
  /\ dprop.Address # <<>>
  /\ dret.property.Address # dprop.Address

\* a failed sold crawl followed by the direct fetch
C23_WitnessMiss ==
  /\ SoldLookupMissed /\ ret.err # NoErr /\ dpc = "done" /\ ~dret.nil

(***************************************************************************)
(* Properties of the chunk computation (SpecWin).                          *)
(***************************************************************************)
\* the bounds of every chunk lie inside the text, in order
ChunksInsideText ==
  \A i \in DOMAIN wchunks :
    0 <= wchunks[i].start /\ wchunks[i].start <= wchunks[i].end
      /\ wchunks[i].end <= wpage.len

\* C24: the chunk of every anchor runs from max(0, o - 500) to
\* min(length, o + 1000), o being the offset of the anchor's own match, and
\* its bounds lie inside the text with start <= end.
C24_ChunkAroundOwnMatch ==
  /\ ChunksInsideText
  /\ \A i \in DOMAIN wchunks :
       LET o == wpage.matches[i].off
       IN  /\ wchunks[i].start = (IF o - 500 > 0 THEN o - 500 ELSE 0)
           /\ wchunks[i].end = (IF o + 1000 < wpage.len THEN o + 1000 ELSE wpage.len)

(***************************************************************************)
(* Properties of the returned records (SpecDetail, Spec).                  *)
(***************************************************************************)
Categories == {"house", "condo", "townhouse", "apartment"}

\* a ScrapePropertyDetail call has returned
DetailReturned == dpc = "done" /\ dsite \in {"homes", "redfin"}

\* C25: every record returned by ScrapeNeighborhood or ScrapePropertyDetail,
\* on the success and on the degraded paths, has a category of the closed set
\* house, condo, townhouse, apartment.
C25_CategoryInClosedSet ==
  /\ pc = "done" =>
       \A r \in BagToSet(ret.properties) : r.PropertyType \in Categories
  /\ (DetailReturned /\ ~dret.nil) => dret.property.PropertyType \in Categories

\* C26: a sold listing is never returned for a URL that gave no address.
C26_NoCacheHitOnEmptyAddress == CacheHit => dprop.Address # <<>>

\* C27: every record returned by ScrapeNeighborhood(city, state,
\* neighborhood, status) has the status the caller passed.
C27_RecordsCarryStatusFilter ==
  pc = "done" =>
    \A r \in BagToSet(ret.properties) : r.Status = args.status

\* C29: every record returned by ScrapePropertyDetail has a non-empty
\* identifier, also when the URL gave no address.
C29_DetailRecordHasID ==
  (DetailReturned /\ ~dret.nil) => dret.property.ID # <<>>

(***************************************************************************)
(* Properties of the HTTP JSON-RPC endpoint (SpecHttp).                    *)
(***************************************************************************)
\* C30: a tools/list, tools/call or resources/list request posted by a
\* client that has not initialized gets -32002 and does not reach the
\* registry, and every decoded request gets the answer the WebSocket
\* endpoint gives to the same message after the same messages.
C30_HttpEnforcesInitialize ==
  \A i \in DOMAIN httpLog :
    LET q == httpLog[i]
    IN  q.decoded =>
          /\ (q.message.method \in {"tools/list", "tools/call", "resources/list"}
                /\ ~q.wasInit)
               => (q.code = ErrNotInitialized /\ ~q.reached)
          /\ q.code = handleMessage(q.wasInit, q.message).code
          /\ q.reached = handleMessage(q.wasInit, q.message).reached

(***************************************************************************)
(* Properties of the identifiers within one crawl (Spec).                  *)
(***************************************************************************)
\* the lower-cased address and city of a listing without the characters
\* that are neither letters nor digits
normalizedListing(r) == StripNonAlnum(ToLower(r.Address \o r.City))

\* C28: two admitted listings of one crawl whose normalized address and city
\* differ have different identifiers.
C28_DistinctListingsDistinctIDs ==
  \A a, b \in Range(Flatten(yields)) :
    normalizedListing(a) # normalizedListing(b) => a.ID # b.ID

====
